---- MODULE Spec2Model ----
(***************************************************************************)
(* Driver Status service (src/main.py): status derivation, subscription    *)
(* registry and change-notification dispatcher.                            *)
(*                                                                         *)
(* Conventions.  A Python str is a sequence of one-character strings       *)
(* (<<"A", "-">> is "A-").  A JSON scalar is a record [ty, s, n]: ty is    *)
(* "str", "num", "bool", "null" or "missing" (key absent from the dict).   *)
(* A Python dict is a function whose DOMAIN is its key set.                *)
(***************************************************************************)
EXTENDS Integers, Sequences, FiniteSets, TLC

(***************************************************************************)
(* A local variable assignment: the value v computed once and handed to    *)
(* the rest of the function body Op                                        *)
(***************************************************************************)
With(v, Op(_)) == CHOOSE y \in { Op(x) : x \in {v} } : TRUE

(***************************************************************************)
(* Python str primitives                                                   *)
(***************************************************************************)
Lowercase == <<"a","b","c","d","e","f","g","h","i","j","k","l","m",
               "n","o","p","q","r","s","t","u","v","w","x","y","z">>
Uppercase == <<"A","B","C","D","E","F","G","H","I","J","K","L","M",
               "N","O","P","Q","R","S","T","U","V","W","X","Y","Z">>
Digits == <<"0","1","2","3","4","5","6","7","8","9">>
Whitespace == {" ", "\t", "\n", "\r"}

UpperChar(c) ==
    IF \E i \in 1..26 : Lowercase[i] = c
    THEN Uppercase[CHOOSE i \in 1..26 : Lowercase[i] = c] ELSE c
LowerChar(c) ==
    IF \E i \in 1..26 : Uppercase[i] = c
    THEN Lowercase[CHOOSE i \in 1..26 : Uppercase[i] = c] ELSE c
Upper(s) == [i \in 1..Len(s) |-> UpperChar(s[i])]
Lower(s) == [i \in 1..Len(s) |-> LowerChar(s[i])]

\* str.strip(): drops leading and trailing whitespace only
Strip(s) ==
    IF \A i \in 1..Len(s) : s[i] \in Whitespace THEN <<>>
    ELSE LET a == CHOOSE i \in 1..Len(s) :
                     s[i] \notin Whitespace /\ \A j \in 1..(i-1) : s[j] \in Whitespace
             b == CHOOSE i \in 1..Len(s) :
                     s[i] \notin Whitespace /\ \A j \in (i+1)..Len(s) : s[j] \in Whitespace
         IN SubSeq(s, a, b)

\* str.replace(c, ""): drops every occurrence of the character c
RECURSIVE RemoveChar(_, _)
RemoveChar(s, c) ==
    IF s = <<>> THEN <<>>
    ELSE IF Head(s) = c THEN RemoveChar(Tail(s), c)
    ELSE <<Head(s)>> \o RemoveChar(Tail(s), c)

\* str.replace(a, b) for single characters
ReplaceChar(s, a, b) == [i \in 1..Len(s) |-> IF s[i] = a THEN b ELSE s[i]]

\* str.split(c, 1)[0]: the text before the first c
SplitFirst(s, c) ==
    IF \E i \in 1..Len(s) : s[i] = c
    THEN SubSeq(s, 1, (CHOOSE i \in 1..Len(s) : s[i] = c /\ \A j \in 1..(i-1) : s[j] # c) - 1)
    ELSE s

IsDigit(c) == \E i \in 1..10 : Digits[i] = c
DigitVal(c) == (CHOOSE i \in 1..10 : Digits[i] = c) - 1
AllDigits(s) == \A i \in 1..Len(s) : IsDigit(s[i])
RECURSIVE ToInt(_)
ToInt(s) == IF s = <<>> THEN 0 ELSE 10 * ToInt(SubSeq(s, 1, Len(s) - 1)) + DigitVal(s[Len(s)])
RECURSIVE IntStr(_)
IntStr(n) == IF n < 10 THEN <<Digits[n + 1]>> ELSE IntStr(n \div 10) \o <<Digits[(n % 10) + 1]>>

(***************************************************************************)
(* JSON values and Python coercions                                        *)
(***************************************************************************)
JStr(s) == [ty |-> "str", s |-> s, n |-> 0]
JNum(n) == [ty |-> "num", s |-> <<>>, n |-> n]
JBool(b) == [ty |-> "bool", s |-> <<>>, n |-> IF b THEN 1 ELSE 0]
JNull == [ty |-> "null", s |-> <<>>, n |-> 0]
Missing == [ty |-> "missing", s |-> <<>>, n |-> 0]
\* a JSON array; a JSON object (a movement) is a record with ty = "dict"
JList(items) == [ty |-> "list", items |-> items]

\* dict.get(key, default)
Get(m, key, default) == IF m[key].ty = "missing" THEN default ELSE m[key]

\* bool(v)
Truthy(v) ==
    CASE v.ty = "str" -> v.s # <<>>
      [] v.ty = "num" -> v.n # 0
      [] v.ty = "bool" -> v.n = 1
      [] OTHER -> FALSE

\* str(v)
PyStr(v) ==
    CASE v.ty = "str" -> v.s
      [] v.ty = "num" -> IF v.n < 0 THEN <<"-">> \o IntStr(0 - v.n) ELSE IntStr(v.n)
      [] v.ty = "bool" -> IF v.n = 1 THEN <<"T","r","u","e">> ELSE <<"F","a","l","s","e">>
      [] OTHER -> <<"N","o","n","e">>

\* str(v or "")
StrOrEmpty(v) == IF Truthy(v) THEN PyStr(v) ELSE <<>>

NanWords == { <<"n","a","n">>, <<"n","o","n","e">>, <<"n","a","t">> }

(***************************************************************************)
(* Helpers of src/main.py                                                  *)
(***************************************************************************)
\* normalize_plate raises AttributeError when (value or "") is not a str
normalize_plate_raises(value) == Truthy(value) /\ value.ty # "str"

normalize_plate(value) ==
    LET v == Strip(Upper(IF Truthy(value) THEN value.s ELSE <<>>))
    IN RemoveChar(RemoveChar(v, " "), "-")

_has(v) ==
    With(Strip(StrOrEmpty(v)), LAMBDA s : s # <<>> /\ Lower(s) \notin NanWords)

_clean_location_value(v) ==
    With(Strip(StrOrEmpty(v)), LAMBDA s :
        IF s = <<>> THEN <<>>
        ELSE IF Lower(s) = <<"w","a","i","t">> THEN <<>>
        ELSE s)

SUPPORTED_LANGS ==
    { <<"e","n">>, <<"d","e">>, <<"n","l">>, <<"e","s">>, <<"i","t">>, <<"r","o">>,
      <<"r","u">>, <<"l","t">>, <<"k","k">>, <<"h","i">>, <<"p","l">>, <<"h","u">>,
      <<"u","z">>, <<"t","g">>, <<"k","y">>, <<"b","e">> }

LangAlias(base) ==
    CASE base \in { <<"e","n","g">> } -> <<"e","n">>
      [] base \in { <<"g","e","r">>, <<"d","e","u">> } -> <<"d","e">>
      [] base \in { <<"d","u","t">>, <<"n","l","d">> } -> <<"n","l">>
      [] base \in { <<"r","u","s">> } -> <<"r","u">>
      [] base \in { <<"l","i","t">> } -> <<"l","t">>
      [] base \in { <<"k","a","z">>, <<"k","z">> } -> <<"k","k">>
      [] base \in { <<"h","i","n">> } -> <<"h","i">>
      [] base \in { <<"p","o","l">> } -> <<"p","l">>
      [] base \in { <<"h","u","n">> } -> <<"h","u">>
      [] base \in { <<"u","z","b">> } -> <<"u","z">>
      [] base \in { <<"t","g","k">>, <<"t","a","j">>, <<"t","j">> } -> <<"t","g">>
      [] base \in { <<"k","i","r">>, <<"k","g">> } -> <<"k","y">>
      [] base \in { <<"b","e","l">>, <<"b","y">> } -> <<"b","e">>
      [] base \in { <<"s","p","a">>, <<"e","s","p">> } -> <<"e","s">>
      [] base \in { <<"i","t","a">> } -> <<"i","t">>
      [] base \in { <<"r","o","m">>, <<"r","o","n">>, <<"r","u","m">> } -> <<"r","o">>
      [] OTHER -> <<"e","n">>

normalize_lang(value) ==
    With(Lower(Strip(StrOrEmpty(value))), LAMBDA s :
        IF s = <<>> THEN <<"e","n">>
        ELSE With(SplitFirst(ReplaceChar(s, "_", "-"), "-"), LAMBDA base :
                 IF base \in SUPPORTED_LANGS THEN base ELSE LangAlias(base)))

(***************************************************************************)
(* datetime: [ord, sec, aware, off] is a Python datetime; ord is           *)
(* date.toordinal() (0001-01-01 is 1), sec the second of the day, aware    *)
(* whether tzinfo is set and off its UTC offset in minutes.  NoDt is None. *)
(***************************************************************************)
NoDt == [ok |-> FALSE, ord |-> 0, sec |-> 0, aware |-> FALSE, off |-> 0]
Dt(ord, sec, aware, off) == [ok |-> TRUE, ord |-> ord, sec |-> sec, aware |-> aware, off |-> off]

IsLeap(y) == y % 4 = 0 /\ (y % 100 # 0 \/ y % 400 = 0)
DaysInMonth(y, m) ==
    CASE m \in {4, 6, 9, 11} -> 30
      [] m = 2 -> IF IsLeap(y) THEN 29 ELSE 28
      [] OTHER -> 31
RECURSIVE DaysBeforeMonth(_, _)
DaysBeforeMonth(y, m) == IF m <= 1 THEN 0 ELSE DaysBeforeMonth(y, m - 1) + DaysInMonth(y, m - 1)
DaysBeforeYear(y) == (y - 1) * 365 + (y - 1) \div 4 - (y - 1) \div 100 + (y - 1) \div 400
ToOrdinal(y, m, d) == DaysBeforeYear(y) + DaysBeforeMonth(y, m) + d
ValidDate(y, m, d) == y >= 1 /\ y <= 9999 /\ m >= 1 /\ m <= 12 /\ d >= 1 /\ d <= DaysInMonth(y, m)

\* "HH:MM" or "HH:MM:SS" at the start of t; the result carries the rest of t
ParseClock(t) ==
    IF Len(t) >= 5 /\ AllDigits(SubSeq(t, 1, 2)) /\ t[3] = ":" /\ AllDigits(SubSeq(t, 4, 5))
    THEN With(Len(t) >= 8 /\ t[6] = ":" /\ AllDigits(SubSeq(t, 7, 8)), LAMBDA hasSec :
         With(<< ToInt(SubSeq(t, 1, 2)), ToInt(SubSeq(t, 4, 5)),
                 IF hasSec THEN ToInt(SubSeq(t, 7, 8)) ELSE 0 >>, LAMBDA hms :
             [ok |-> hms[1] < 24 /\ hms[2] < 60 /\ hms[3] < 60,
              sec |-> hms[1] * 3600 + hms[2] * 60 + hms[3],
              rest |-> SubSeq(t, IF hasSec THEN 9 ELSE 6, Len(t))]))
    ELSE [ok |-> FALSE, sec |-> 0, rest |-> <<>>]

\* "+HH:MM" / "-HH:MM" UTC offset, or nothing
ParseOffset(t) ==
    IF t = <<>> THEN [ok |-> TRUE, aware |-> FALSE, off |-> 0]
    ELSE IF Len(t) = 6 /\ t[1] \in {"+", "-"} /\ AllDigits(SubSeq(t, 2, 3)) /\ t[4] = ":"
            /\ AllDigits(SubSeq(t, 5, 6))
    THEN With(<< ToInt(SubSeq(t, 2, 3)), ToInt(SubSeq(t, 5, 6)) >>, LAMBDA hm :
             [ok |-> hm[1] < 24 /\ hm[2] < 60, aware |-> TRUE,
              off |-> (IF t[1] = "-" THEN -1 ELSE 1) * (hm[1] * 60 + hm[2])])
    ELSE [ok |-> FALSE, aware |-> FALSE, off |-> 0]

\* datetime.fromisoformat on YYYY-MM-DD[*HH:MM[:SS][+HH:MM]]; NoDt stands for ValueError
fromisoformat(s) ==
    IF Len(s) >= 10 /\ AllDigits(SubSeq(s, 1, 4)) /\ s[5] = "-" /\ AllDigits(SubSeq(s, 6, 7))
       /\ s[8] = "-" /\ AllDigits(SubSeq(s, 9, 10))
    THEN With(<< ToInt(SubSeq(s, 1, 4)), ToInt(SubSeq(s, 6, 7)), ToInt(SubSeq(s, 9, 10)) >>,
              LAMBDA ymd :
         IF ~ValidDate(ymd[1], ymd[2], ymd[3]) THEN NoDt
         ELSE With(ToOrdinal(ymd[1], ymd[2], ymd[3]), LAMBDA ord :
              IF Len(s) = 10 THEN Dt(ord, 0, FALSE, 0)
              ELSE With(ParseClock(SubSeq(s, 12, Len(s))), LAMBDA c :
                   With(ParseOffset(c.rest), LAMBDA z :
                       IF c.ok /\ z.ok THEN Dt(ord, c.sec, z.aware, z.off) ELSE NoDt))))
    ELSE NoDt

\* dateutil.parser.parse(s, dayfirst=True, fuzzy=True) on the day-first forms
\* DD.MM.YYYY, DD/MM/YYYY and DD-MM-YYYY with an optional " HH:MM[:SS]"; NoDt
\* stands for ParserError, which is what text without any date token gives.
dtparser_parse(s) ==
    IF Len(s) >= 10 /\ AllDigits(SubSeq(s, 1, 2)) /\ s[3] \in {".", "/", "-"}
       /\ AllDigits(SubSeq(s, 4, 5)) /\ s[6] = s[3] /\ AllDigits(SubSeq(s, 7, 10))
    THEN With(<< ToInt(SubSeq(s, 7, 10)), ToInt(SubSeq(s, 4, 5)), ToInt(SubSeq(s, 1, 2)) >>,
              LAMBDA ymd :
         IF ~ValidDate(ymd[1], ymd[2], ymd[3]) THEN NoDt
         ELSE With(ToOrdinal(ymd[1], ymd[2], ymd[3]), LAMBDA ord :
              IF Len(s) = 10 THEN Dt(ord, 0, FALSE, 0)
              ELSE With(ParseClock(SubSeq(s, 12, Len(s))), LAMBDA c :
                   IF s[11] = " " /\ c.ok /\ c.rest = <<>>
                   THEN Dt(ord, c.sec, FALSE, 0)
                   ELSE NoDt)))
    ELSE NoDt

_parse_dt(val, dateutil_ok) ==
    IF val.ty = "null" THEN NoDt
    ELSE With(Strip(PyStr(val)), LAMBDA s :
         IF s = <<>> \/ Lower(s) \in NanWords THEN NoDt
         ELSE With(fromisoformat(IF s[Len(s)] = "Z" THEN SubSeq(s, 1, Len(s) - 1) ELSE s),
                   LAMBDA iso :
              IF iso.ok THEN iso
              ELSE IF dateutil_ok THEN dtparser_parse(s)
              ELSE NoDt))

\* faulty variant of MinutesLeftExceeds: the limit itself counts as exceeded
MinutesLeftAtLeast(a, b, limit) ==
    LET dd == a.ord - b.ord
    IN IF dd > 1 THEN TRUE
       ELSE IF dd < -1 THEN FALSE
       ELSE dd * 86400 + (a.sec - b.sec) >= limit * 60

\* (a - b).total_seconds() / 60.0 > limit, for naive a and b
MinutesLeftExceeds(a, b, limit) ==
    LET dd == a.ord - b.ord
    IN IF dd > 1 THEN TRUE
       ELSE IF dd < -1 THEN FALSE
       ELSE dd * 86400 + (a.sec - b.sec) > limit * 60

\* dt - timedelta(minutes=n) raises OverflowError below datetime.min
MinusMinutesOverflows(dt, n) == dt.ord = 1 /\ dt.sec < n * 60
MinusMinutes(dt, n) ==
    LET t == dt.sec - n * 60
    IN IF t >= 0 THEN [dt EXCEPT !.sec = t]
       ELSE [dt EXCEPT !.ord = dt.ord - 1, !.sec = t + 86400]

\* date.fromordinal
FromOrdinal(ord) ==
    With(CHOOSE yy \in (ord \div 366)..(ord \div 365 + 1) :
             yy >= 1 /\ DaysBeforeYear(yy) < ord /\ ord <= DaysBeforeYear(yy + 1), LAMBDA y :
    With(ord - DaysBeforeYear(y), LAMBDA r :
    With(CHOOSE mm \in 1..12 :
             DaysBeforeMonth(y, mm) < r /\ r <= DaysBeforeMonth(y, mm) + DaysInMonth(y, mm),
         LAMBDA m : [y |-> y, m |-> m, d |-> r - DaysBeforeMonth(y, m)])))

\* zero-padded decimal of width w (%Y, %m, %d, %H, %M, %S)
Pad0(n, w) == [i \in 1..(w - Len(IntStr(n))) |-> "0"] \o IntStr(n)

IsWordChar(c) ==
    IsDigit(c) \/ c = "_" \/ (\E i \in 1..26 : Lowercase[i] = c \/ Uppercase[i] = c)

\* pat matches s at position i ("d" in pat is \d, anything else a literal)
PatAt(s, i, pat) ==
    /\ i + Len(pat) - 1 <= Len(s)
    /\ \A k \in 1..Len(pat) :
          IF pat[k] = "d" THEN IsDigit(s[i + k - 1]) ELSE s[i + k - 1] = pat[k]
\* re.search(r"\b" + pat + r"\b", s), for a pat that starts and ends with \d
SearchWord(s, pat) ==
    \E i \in 1..Len(s) :
        /\ PatAt(s, i, pat)
        /\ (i = 1 \/ ~IsWordChar(s[i - 1]))
        /\ (i + Len(pat) - 1 = Len(s) \/ ~IsWordChar(s[i + Len(pat)]))
\* re.search(r":\d{2}:\d{2}(?!\d)", s)
HasSeconds(s) ==
    \E i \in 1..Len(s) :
        /\ PatAt(s, i, <<":", "d", "d", ":", "d", "d">>)
        /\ (i + 5 = Len(s) \/ ~IsDigit(s[i + 6]))

\* the date format _format_dt_like picks: the order of the fields and the separator
DateStyle(s) ==
    CASE SearchWord(s, <<"d","d",".","d","d",".","d","d","d","d">>) -> [order |-> "dmy", sep |-> "."]
      [] SearchWord(s, <<"d","d","/","d","d","/","d","d","d","d">>) -> [order |-> "dmy", sep |-> "/"]
      [] SearchWord(s, <<"d","d","-","d","d","-","d","d","d","d">>) -> [order |-> "dmy", sep |-> "-"]
      [] SearchWord(s, <<"d","d","d","d","/","d","d","/","d","d">>) -> [order |-> "ymd", sep |-> "/"]
      [] SearchWord(s, <<"d","d","d","d",".","d","d",".","d","d">>) -> [order |-> "ymd", sep |-> "."]
      [] OTHER -> [order |-> "ymd", sep |-> "-"]

\* strftime of the date part in the given style
FormatDate(c, st) ==
    IF st.order = "dmy"
    THEN Pad0(c.d, 2) \o <<st.sep>> \o Pad0(c.m, 2) \o <<st.sep>> \o Pad0(c.y, 4)
    ELSE Pad0(c.y, 4) \o <<st.sep>> \o Pad0(c.m, 2) \o <<st.sep>> \o Pad0(c.d, 2)

\* strftime of the time part, %H:%M or %H:%M:%S
FormatTime(sec, has_seconds) ==
    Pad0(sec \div 3600, 2) \o <<":">> \o Pad0((sec % 3600) \div 60, 2)
    \o (IF has_seconds THEN <<":">> \o Pad0(sec % 60, 2) ELSE <<>>)

_format_dt_like(dt, sample) ==
    With(Strip(StrOrEmpty(sample)), LAMBDA s :
        FormatDate(FromOrdinal(dt.ord), DateStyle(s))
        \o (IF (\E i \in 1..Len(s) : s[i] = "T") /\ ~(\E i \in 1..Len(s) : s[i] = " ")
            THEN <<"T">> ELSE <<" ">>)
        \o FormatTime(dt.sec, HasSeconds(s)))

(***************************************************************************)
(* Status derivation                                                       *)
(***************************************************************************)
StatusKeys == {"DEPARTED", "LOCATION", "CLOSEDOOR_NO_LOCATION", "LOADING_WAIT", "REPORT_OFFICE"}

\* _I18N_STATUS[lang][name].format(trailer=..., location=...): the text is the
\* template's identity (language, name) followed by the interpolated values
I18N(lang, name, trailer, location) ==
    lang \o <<":", name>>
    \o (IF name = "LOCATION_WITH_TRAILER" THEN <<"{">> \o trailer \o <<"}">> ELSE <<>>)
    \o (IF name \in {"LOCATION_WITH_TRAILER", "LOCATION_NO_TRAILER"}
        THEN <<"{">> \o location \o <<"}">> ELSE <<>>)

\* hashlib.sha1(msg.encode("utf-8", "ignore")).hexdigest()[:12]
Sha1Hex12(msg) ==
    CASE msg = <<"h","i">> -> "c22b5f917834"
      [] msg = <<"g","o">> -> "1ec558a60b5d"
      [] msg = <<"o","k">> -> "7a85f4764bbd"

\* dict.get(key) with None rendered as the empty text
DictGetOrEmpty(d, key) == IF key \in DOMAIN d THEN d[key] ELSE <<>>

TruthyWords == { <<"1">>, <<"t","r","u","e">>, <<"y","e","s">>, <<"y">> }

Departed(m) ==
    With(Get(m, "departed", JBool(FALSE)), LAMBDA departed :
        IF (IF departed.ty = "str" THEN Lower(Strip(departed.s)) \in TruthyWords
            ELSE Truthy(departed))
        THEN TRUE
        ELSE _has(Get(m, "departed_at", JStr(<<>>))))

\* the manual message of the record's plate ("" when there is none)
ManualMessage(m, manual) ==
    With(Get(m, "license_plate", JStr(<<>>)), LAMBDA lp :
    With(IF normalize_plate_raises(lp) THEN <<>> ELSE normalize_plate(lp), LAMBDA plate_n :
        Strip(IF plate_n # <<>> THEN DictGetOrEmpty(manual, plate_n) ELSE <<>>)))

ManualKey(msg) == "driver_message:" \o Sha1Hex12(msg)

\* faulty variant of GuardChain: a record without a usable schedule gets no key
GuardChainNoFallback(location, close_door, sched_dt, now) ==
    IF _has(JStr(location)) THEN "LOCATION"
    ELSE IF _has(close_door) THEN "CLOSEDOOR_NO_LOCATION"
    ELSE IF ~sched_dt.ok THEN "UNKNOWN"
    ELSE IF MinutesLeftExceeds(sched_dt, now, 45) THEN "LOADING_WAIT"
    ELSE "REPORT_OFFICE"

\* faulty variant of GuardChain: the close-door flag is looked at before the location
GuardChainCloseDoorFirst(location, close_door, sched_dt, now) ==
    IF _has(close_door) THEN "CLOSEDOOR_NO_LOCATION"
    ELSE IF _has(JStr(location)) THEN "LOCATION"
    ELSE IF sched_dt.ok /\ MinutesLeftExceeds(sched_dt, now, 45) THEN "LOADING_WAIT"
    ELSE "REPORT_OFFICE"

\* faulty variant of GuardChain: the time branch compares with 90 minutes
GuardChainNinetyMinutes(location, close_door, sched_dt, now) ==
    IF _has(JStr(location)) THEN "LOCATION"
    ELSE IF _has(close_door) THEN "CLOSEDOOR_NO_LOCATION"
    ELSE IF sched_dt.ok /\ MinutesLeftExceeds(sched_dt, now, 90) THEN "LOADING_WAIT"
    ELSE "REPORT_OFFICE"

\* the branch of the guard chain after the manual and departed overrides
GuardChain(location, close_door, sched_dt, now) ==
    IF _has(JStr(location)) THEN "LOCATION"
    ELSE IF _has(close_door) THEN "CLOSEDOOR_NO_LOCATION"
    ELSE IF sched_dt.ok /\ MinutesLeftExceeds(sched_dt, now, 45) THEN "LOADING_WAIT"
    ELSE "REPORT_OFFICE"

\* the exceptions compute_driver_status lets escape: naive - aware datetime
\* subtraction (TypeError) and sched_dt - timedelta below datetime.min
compute_driver_status_raises(m, manual, dateutil_ok) ==
    /\ ManualMessage(m, manual) = <<>>
    /\ ~Departed(m)
    /\ With(_parse_dt(Get(m, "scheduled_departure", JStr(<<>>)), dateutil_ok), LAMBDA sched_dt :
           /\ sched_dt.ok
           /\ \/ /\ ~_has(JStr(_clean_location_value(Get(m, "location", JStr(<<>>)))))
                 /\ ~_has(Get(m, "close_door", JStr(<<>>)))
                 /\ sched_dt.aware
              \/ MinusMinutesOverflows(sched_dt, 45))

\* the _I18N_STATUS entry of a status key: LOCATION splits on the trailer
TemplateName(key, trailer) ==
    IF key = "LOCATION"
    THEN (IF trailer # <<>> THEN "LOCATION_WITH_TRAILER" ELSE "LOCATION_NO_TRAILER")
    ELSE key

\* faulty variant of ReportInOfficeAt: an hour before the schedule
ReportInOfficeAtHourEarlier(sched_dt, sched_raw) ==
    IF sched_dt.ok /\ ~MinusMinutesOverflows(sched_dt, 60)
    THEN _format_dt_like(MinusMinutes(sched_dt, 60), sched_raw)
    ELSE <<>>

\* report_time = sched_dt - timedelta(minutes=45), rendered like the input
ReportInOfficeAt(sched_dt, sched_raw) ==
    IF sched_dt.ok /\ ~MinusMinutesOverflows(sched_dt, 45)
    THEN _format_dt_like(MinusMinutes(sched_dt, 45), sched_raw)
    ELSE <<>>

compute_driver_status(m, lang, manual, now, dateutil_ok) ==
    With(normalize_lang(lang), LAMBDA lang_n :
    With(ManualMessage(m, manual), LAMBDA msg :
        IF msg # <<>>
        THEN [status_key |-> ManualKey(msg), status_text |-> msg, report_in_office_at |-> <<>>]
        ELSE IF Departed(m)
        THEN [status_key |-> "DEPARTED", status_text |-> I18N(lang_n, "DEPARTED", <<>>, <<>>),
              report_in_office_at |-> <<>>]
        ELSE With(_clean_location_value(Get(m, "location", JStr(<<>>))), LAMBDA location :
             With(Strip(StrOrEmpty(Get(m, "trailer", JStr(<<>>)))), LAMBDA trailer :
             With(_parse_dt(Get(m, "scheduled_departure", JStr(<<>>)), dateutil_ok),
                  LAMBDA sched_dt :
             With(GuardChain(location, Get(m, "close_door", JStr(<<>>)), sched_dt, now),
                  LAMBDA key2 :
                 [status_key |-> key2,
                  status_text |-> I18N(lang_n, TemplateName(key2, trailer), trailer, location),
                  report_in_office_at |->
                      ReportInOfficeAt(sched_dt, Get(m, "scheduled_departure", JStr(<<>>)))]))))))

(***************************************************************************)
(* State                                                                   *)
(***************************************************************************)
VARIABLES
    PUSH_ENABLED,              \* bool(_PUSH_OK and VAPID keys), fixed at import
    DATEUTIL_OK,               \* _DATEUTIL_OK, fixed at import
    SNAPSHOT,                  \* JNull (None) or [movements |-> list of dicts]
    LAST_STATUS_KEY_BY_PLATE,  \* dict plate -> status_key
    SUBSCRIPTIONS_BY_PLATE,    \* dict plate -> list of [endpoint, lang]
    MANUAL_STATUS_BY_PLATE,    \* dict plate -> message
    clock,                     \* index into ClockTimes: what the wall clock shows
    el,                        \* what the event loop is running (idle, a diff pass, driver_message)
    disp,                      \* the _push_to_plate_localized call in progress, if any
    quiet,                     \* history: no input of the diff changed since the last pass started
    call                       \* the compute_driver_status call of SpecStatus

vars == << PUSH_ENABLED, DATEUTIL_OK, SNAPSHOT, LAST_STATUS_KEY_BY_PLATE,
           SUBSCRIPTIONS_BY_PLATE, MANUAL_STATUS_BY_PLATE, clock, el, disp, quiet, call >>

config == << PUSH_ENABLED, DATEUTIL_OK >>

\* dict[key] = value
Put(d, key, value) == [x \in (DOMAIN d) \cup {key} |-> IF x = key THEN value ELSE d[x]]
EmptyDict == <<>>

(***************************************************************************)
(* Input values                                                            *)
(***************************************************************************)
Chars_2024_05_01 == <<"2","0","2","4","-","0","5","-","0","1">>
\* how many readings of the wall clock a behaviour goes through
MaxClock == 2
\* datetime.now() at reading c: 12:00 on 2024-05-01, then 13:15, 14:30 ...
ClockTimes ==
    [c \in 1..(MaxClock + 1) |->
        [fromisoformat(Chars_2024_05_01) EXCEPT !.sec = 12 * 3600 + (c - 1) * 75 * 60]]
now == ClockTimes[clock]

Movement(lp, departed, location, close_door, sched) ==
    [ty |-> "dict", license_plate |-> lp, departed |-> departed, departed_at |-> Missing,
     location |-> location, close_door |-> close_door, trailer |-> Missing,
     scheduled_departure |-> sched]

Sched1400 == JStr(Chars_2024_05_01 \o <<" ","1","4",":","0","0">>)
SchedAware == JStr(Chars_2024_05_01 \o <<"T","1","4",":","0","0","+","0","2",":","0","0">>)

\* plate "a-" (normalizes to "A"), scheduled 14:00: LOADING_WAIT until 13:15
mWait == Movement(JStr(<<"a","-">>), Missing, Missing, Missing, Sched1400)
\* plate "A", departed
mDeparted == Movement(JStr(<<"A">>), JBool(TRUE), Missing, Missing, Sched1400)
\* license_plate is a number: normalize_plate raises
mNumPlate == Movement(JNum(5), Missing, Missing, Missing, Missing)
\* a timezone-qualified schedule: compute_driver_status raises in the time branch
mAware == Movement(JStr(<<"A">>), Missing, Missing, Missing, SchedAware)
\* no plate
mNoPlate == Movement(Missing, Missing, JStr(<<"D","1">>), Missing, Missing)
\* plate "A<TAB>-" (normalizes to "A<TAB>", which normalizes to "A"), at a location
mTab == Movement(JStr(<<"A","\t","-">>), Missing, JStr(<<"D","1">>), Missing, Missing)
\* the same plate, close-door, the location a "wait" placeholder
mTabClosed == Movement(JStr(<<"A","\t","-">>), Missing, JStr(<<"w","a","i","t">>), JStr(<<"x">>), Missing)

\* request bodies of POST /api/upload; movements holds the list, or a non-list
Bodies ==
    { [movements |-> JList(<<mWait>>)],
      [movements |-> JList(<<mDeparted, mWait>>)],
      [movements |-> JList(<<JNum(1), mNoPlate, mDeparted, mNumPlate>>)],
      [movements |-> JList(<<mAware, mWait>>)],
      [movements |-> JNull],
      [movements |-> Missing] }
TabBodies ==
    { [movements |-> JList(<<mTab>>)],
      [movements |-> JList(<<mTabClosed>>)],
      [movements |-> Missing] }

ADMIN_UPLOAD_SECRET == <<"s","e","c","r","e","t","1","2">>
Secrets == { ADMIN_UPLOAD_SECRET, <<"w","r","o","n","g","1","2","3">> }

\* request bodies of POST /api/driver_message
DriverMessageRequests ==
    { [plate |-> JStr(<<"a","-">>), message |-> JStr(<<" ","h","i"," ">>)],
      [plate |-> JStr(<<"a","-">>), message |-> JStr(<<"g","o">>)],
      [plate |-> JStr(<<"-">>), message |-> JStr(<<"h","i">>)],
      [plate |-> JStr(<<"a","-">>), message |-> JStr(<<" ">>)] }
TabMessageRequests ==
    { [plate |-> JStr(<<"A","\t","-">>), message |-> JStr(<<"h","i">>)],
      [plate |-> JStr(<<"A","\t","-">>), message |-> Missing] }

\* client location samples: age of the timestamp in seconds (now - ts) and
\* great-circle distance from the hub in metres
Samples == { [age |-> 0, metres |-> 5000], [age |-> 121, metres |-> 5000],
             [age |-> -120, metres |-> 30001] }

\* subscribe requests: plate, lang and the subscription body
NoEndpoint == "(no endpoint key)"
SubscribeRequests ==
    { [plate |-> <<"a","-">>, lang |-> JStr(<<"d","e">>), endpoint |-> "e1"],
      [plate |-> <<"a","-">>, lang |-> JStr(<<"E","N","_","u","s">>), endpoint |-> "e1"],
      [plate |-> <<"a","-">>, lang |-> JStr(<<"x","x">>), endpoint |-> "e2"],
      [plate |-> <<"a","-">>, lang |-> JStr(<<"d","e">>), endpoint |-> NoEndpoint] }
TabSubscribeRequests ==
    { [plate |-> <<"A","\t","-">>, lang |-> JStr(<<"d","e","u">>), endpoint |-> "e1"],
      [plate |-> <<"A","\t","-">>, lang |-> Missing, endpoint |-> "e2"],
      [plate |-> <<"A","\t","-">>, lang |-> JStr(<<"d","e">>), endpoint |-> NoEndpoint] }

(***************************************************************************)
(* Geofence                                                                *)
(***************************************************************************)
MAX_LOCATION_AGE_SECONDS == 120
GEOFENCE_RADIUS_KM == 30

Abs(x) == IF x < 0 THEN 0 - x ELSE x

\* faulty variant of geofence_check: the distance is looked at first
geofence_check_range_first(sample) ==
    IF sample.metres > GEOFENCE_RADIUS_KM * 1000 THEN "range"
    ELSE IF Abs(sample.age) > MAX_LOCATION_AGE_SECONDS THEN "stale"
    ELSE "ok"

\* "ok", or the reason of the HTTPException: "stale" (401) or "range" (403)
geofence_check(sample) ==
    IF Abs(sample.age) > MAX_LOCATION_AGE_SECONDS THEN "stale"
    ELSE IF sample.metres > GEOFENCE_RADIUS_KM * 1000 THEN "range"
    ELSE "ok"

(***************************************************************************)
(* Snapshot and dispatcher helpers                                         *)
(***************************************************************************)
Snapshot(moves) == [ty |-> "dict", movements |-> moves]

IsDict(x) == x.ty = "dict"

\* the list of movement dicts of a snapshot; [] when there is none
_snapshot_movements(snapshot) ==
    IF snapshot.ty # "dict" THEN <<>>
    ELSE snapshot.movements

\* what upload_snapshot stores for a request body: body["movements"] replaced
\* by its dict items (a non-list gives [])
Sanitized(body) ==
    Snapshot(IF body.movements.ty = "list" THEN SelectSeq(body.movements.items, IsDict) ELSE <<>>)

\* faulty variant of DiffBranch: a changed key goes unnoticed
DiffBranchMissesChange(has_old, old_key, new_key) ==
    IF ~has_old THEN "seed" ELSE "same"

\* faulty variant of DiffBranch: a plate whose key has changed is seeded anew
DiffBranchReseeds(has_old, old_key, new_key) ==
    IF ~has_old \/ new_key # old_key THEN "seed" ELSE "same"

\* the three-way branch of the diff on (old_key, new_key)
DiffBranch(has_old, old_key, new_key) ==
    IF ~has_old THEN "seed"
    ELSE IF new_key # old_key THEN "changed"
    ELSE "same"

\* faulty variant of CacheAfter: a changed key is dispatched but not stored
CacheAfterSeedOnly(last, plate, new_key, branch) ==
    IF branch = "seed" THEN Put(last, plate, new_key) ELSE last

\* the cache after one record of the diff
CacheAfter(last, plate, new_key, branch) ==
    IF branch \in {"seed", "changed"} THEN Put(last, plate, new_key) ELSE last

\* bodies of _push_status_change_to_plate: one text per supported language
StatusBodies(m, manual, t, dateutil_ok) ==
    [l \in SUPPORTED_LANGS |-> compute_driver_status(m, JStr(l), manual, t, dateutil_ok).status_text]

\* faulty variant of DriverMessageBodies: the text is wrapped per language
DriverMessageBodiesLocalized(message) == [l \in SUPPORTED_LANGS |-> l \o <<":">> \o message]

\* bodies of _push_driver_message_to_plate: the message in every language
DriverMessageBodies(message) == [l \in SUPPORTED_LANGS |-> message]

\* faulty variant of BodyFor: every subscriber is sent the default-language body
BodyForDefaultOnly(body_by_lang, lang) ==
    IF <<"e","n">> \in DOMAIN body_by_lang THEN body_by_lang[<<"e","n">>] ELSE <<>>

\* body_by_lang.get(lang) or body_by_lang.get("en") or ""
BodyFor(body_by_lang, lang) ==
    IF lang \in DOMAIN body_by_lang /\ body_by_lang[lang] # <<>> THEN body_by_lang[lang]
    ELSE IF <<"e","n">> \in DOMAIN body_by_lang THEN body_by_lang[<<"e","n">>]
    ELSE <<>>

\* faulty variant of AliveAfter: a failed subscription is kept
AliveAfterKeepAll(alive, sub, ok) == Append(alive, sub)

\* the alive list after one webpush call
AliveAfter(alive, sub, ok) == IF ok THEN Append(alive, sub) ELSE alive

\* faulty variant of NextSub: a failure makes the loop skip the next subscription
NextSubSkipAfterFailure(j, ok) == IF ok THEN j + 1 ELSE j + 2

\* the for loop over subs: the index of the next subscription to serve
NextSub(j, ok) == j + 1

\* faulty variant of SubscribeList: the old entry of the endpoint is not dropped
SubscribeListAppendOnly(subs, endpoint, sub_rec) == Append(subs, sub_rec)

\* the list subscribe stores: the old entry of the endpoint dropped, the new one appended
SubscribeList(subs, endpoint, sub_rec) ==
    Append(SelectSeq(subs, LAMBDA x : x.endpoint # endpoint), sub_rec)

\* dict.get(plate, []) or []
SubsOf(registry, plate) == IF plate \in DOMAIN registry THEN registry[plate] ELSE <<>>

Idle == [pc |-> "idle", kind |-> "", i |-> 0, seeded |-> {}, sq |-> FALSE, plate |-> <<>>]
NoDisp == [pc |-> "none", plate |-> <<>>, title_key |-> "", bodies |-> <<>>,
           subs |-> <<>>, j |-> 0, alive |-> <<>>, att |-> <<>>]
NoStatus == [status_key |-> "", status_text |-> <<>>, report_in_office_at |-> <<>>]
NoCall == [pc |-> "none", m |-> Missing, lang |-> Missing, st |-> NoStatus, at |-> 0,
           again |-> NoStatus]

\* _push_to_plate_localized up to its first webpush: NoDisp when it returns at once
StartDispatch(plate, title_key, bodies) ==
    With(SubsOf(SUBSCRIPTIONS_BY_PLATE, plate), LAMBDA subs :
        IF ~PUSH_ENABLED \/ subs = <<>> THEN NoDisp
        ELSE [pc |-> "send", plate |-> plate, title_key |-> title_key, bodies |-> bodies,
              subs |-> subs, j |-> 1, alive |-> <<>>, att |-> <<>>])

\* the status_key of every movement of the snapshot at clock reading c
KeyOf(m, manual, t, dateutil_ok) ==
    IF compute_driver_status_raises(m, manual, dateutil_ok) THEN "(raises)"
    ELSE compute_driver_status(m, JStr(<<"e","n">>), manual, t, dateutil_ok).status_key
KeysAt(c) ==
    With(_snapshot_movements(SNAPSHOT), LAMBDA moves :
        [i \in 1..Len(moves) |->
            KeyOf(moves[i], MANUAL_STATUS_BY_PLATE, ClockTimes[c], DATEUTIL_OK)])

(***************************************************************************)
(* Initial state: the module just imported, nothing uploaded               *)
(***************************************************************************)
Init ==
    /\ PUSH_ENABLED \in BOOLEAN
    /\ DATEUTIL_OK = TRUE
    /\ SNAPSHOT = JNull
    /\ LAST_STATUS_KEY_BY_PLATE = EmptyDict
    /\ SUBSCRIPTIONS_BY_PLATE = EmptyDict
    /\ MANUAL_STATUS_BY_PLATE = EmptyDict
    /\ clock = 1
    /\ el = Idle
    /\ disp = NoDisp
    /\ quiet = FALSE
    /\ call = NoCall

(***************************************************************************)
(* POST /api/upload: upload_snapshot up to the start of its diff pass      *)
(***************************************************************************)
\* faulty variant of upload_snapshot_rejects: the secret is not compared
upload_snapshot_accepts_any_secret(secret, body) == body.movements.ty = "missing"

\* the HTTPException exits of upload_snapshot: 401 on a wrong secret, 400 on a
\* body without "movements"
upload_snapshot_rejects(secret, body) ==
    secret # ADMIN_UPLOAD_SECRET \/ body.movements.ty = "missing"

UploadSnapshot(secret, body) ==
    /\ el.pc = "idle"
    /\ IF upload_snapshot_rejects(secret, body)
       THEN UNCHANGED << SNAPSHOT, el, quiet >>
       ELSE /\ SNAPSHOT' = Sanitized(body)
            /\ IF PUSH_ENABLED
               THEN /\ el' = [Idle EXCEPT !.pc = "pass", !.kind = "upload", !.i = 1,
                                         !.sq = quiet /\ SNAPSHOT' = SNAPSHOT]
                    /\ quiet' = TRUE
               ELSE UNCHANGED << el, quiet >>
    /\ UNCHANGED << config, LAST_STATUS_KEY_BY_PLATE, SUBSCRIPTIONS_BY_PLATE,
                    MANUAL_STATUS_BY_PLATE, clock, disp, call >>

(***************************************************************************)
(* _startup._loop: the periodic task wakes up and starts a diff pass       *)
(***************************************************************************)
LoopTick ==
    /\ PUSH_ENABLED
    /\ el.pc = "idle"
    /\ IF SNAPSHOT.ty = "dict"
       THEN /\ el' = [Idle EXCEPT !.pc = "pass", !.kind = "loop", !.i = 1, !.sq = quiet]
            /\ quiet' = TRUE
       ELSE UNCHANGED << el, quiet >>
    /\ UNCHANGED << config, SNAPSHOT, LAST_STATUS_KEY_BY_PLATE, SUBSCRIPTIONS_BY_PLATE,
                    MANUAL_STATUS_BY_PLATE, clock, disp, call >>

(***************************************************************************)
(* One iteration of the diff loop (of _loop or of upload_snapshot)         *)
(***************************************************************************)
DiffStep ==
    /\ el.pc = "pass"
    /\ disp.pc = "none"
    /\ el.i <= Len(_snapshot_movements(SNAPSHOT))
    /\ \E m \in { _snapshot_movements(SNAPSHOT)[el.i] } :
       \E lp \in { Get(m, "license_plate", JStr(<<>>)) } :
       \E plate \in { normalize_plate(lp) } :
          IF normalize_plate_raises(lp)
             \/ (plate # <<>> /\ compute_driver_status_raises(m, MANUAL_STATUS_BY_PLATE, DATEUTIL_OK))
          THEN \* except Exception: pass -- the rest of the pass is skipped
               /\ el' = Idle
               /\ UNCHANGED << LAST_STATUS_KEY_BY_PLATE, disp >>
          ELSE IF plate = <<>>
          THEN /\ el' = [el EXCEPT !.i = el.i + 1]
               /\ UNCHANGED << LAST_STATUS_KEY_BY_PLATE, disp >>
          ELSE \E new_key \in { compute_driver_status(m, JStr(<<"e","n">>), MANUAL_STATUS_BY_PLATE,
                                                     now, DATEUTIL_OK).status_key } :
               \E branch \in { DiffBranch(plate \in DOMAIN LAST_STATUS_KEY_BY_PLATE,
                                          DictGetOrEmpty(LAST_STATUS_KEY_BY_PLATE, plate),
                                          new_key) } :
               /\ LAST_STATUS_KEY_BY_PLATE' = CacheAfter(LAST_STATUS_KEY_BY_PLATE, plate, new_key, branch)
               /\ el' = [el EXCEPT !.i = el.i + 1,
                                   !.seeded = IF branch = "seed" THEN el.seeded \cup {plate}
                                              ELSE el.seeded]
               /\ disp' = IF branch = "changed"
                          THEN StartDispatch(plate, "STATUS_UPDATE",
                                   StatusBodies(m, MANUAL_STATUS_BY_PLATE, now, DATEUTIL_OK))
                          ELSE NoDisp
    /\ UNCHANGED << config, SNAPSHOT, SUBSCRIPTIONS_BY_PLATE, MANUAL_STATUS_BY_PLATE, clock,
                    quiet, call >>

\* faulty variant of PassEnd: the pass ends by dropping the plates that have
\* no subscription left
PassEndDropsEmptyLists ==
    /\ el.pc = "pass"
    /\ disp.pc = "none"
    /\ el.i > Len(_snapshot_movements(SNAPSHOT))
    /\ el' = Idle
    /\ SUBSCRIPTIONS_BY_PLATE' =
           [p \in { q \in DOMAIN SUBSCRIPTIONS_BY_PLATE : SUBSCRIPTIONS_BY_PLATE[q] # <<>> } |->
               SUBSCRIPTIONS_BY_PLATE[p]]
    /\ UNCHANGED << config, SNAPSHOT, LAST_STATUS_KEY_BY_PLATE,
                    MANUAL_STATUS_BY_PLATE, clock, disp, quiet, call >>

\* the diff loop is exhausted: upload_snapshot returns, _loop goes to sleep
PassEnd ==
    /\ el.pc = "pass"
    /\ disp.pc = "none"
    /\ el.i > Len(_snapshot_movements(SNAPSHOT))
    /\ el' = Idle
    /\ UNCHANGED << config, SNAPSHOT, LAST_STATUS_KEY_BY_PLATE, SUBSCRIPTIONS_BY_PLATE,
                    MANUAL_STATUS_BY_PLATE, clock, disp, quiet, call >>

(***************************************************************************)
(* _push_to_plate_localized: one webpush call, which succeeds or raises    *)
(***************************************************************************)
Deliver(ok) ==
    /\ disp.pc = "send"
    /\ disp.j <= Len(disp.subs)
    /\ \E sub \in { disp.subs[disp.j] } :
       \E body \in { BodyFor(disp.bodies, normalize_lang(JStr(sub.lang))) } :
          disp' = [disp EXCEPT !.j = NextSub(disp.j, ok),
                               !.alive = AliveAfter(disp.alive, sub, ok),
                               !.att = Append(disp.att, [sub |-> sub, body |-> body, ok |-> ok])]
    /\ UNCHANGED << config, SNAPSHOT, LAST_STATUS_KEY_BY_PLATE, SUBSCRIPTIONS_BY_PLATE,
                    MANUAL_STATUS_BY_PLATE, clock, el, quiet, call >>

\* SUBSCRIPTIONS_BY_PLATE[plate] = alive
Prune ==
    /\ disp.pc = "send"
    /\ disp.j > Len(disp.subs)
    /\ SUBSCRIPTIONS_BY_PLATE' = Put(SUBSCRIPTIONS_BY_PLATE, disp.plate, disp.alive)
    /\ disp' = [disp EXCEPT !.pc = "done"]
    /\ UNCHANGED << config, SNAPSHOT, LAST_STATUS_KEY_BY_PLATE, MANUAL_STATUS_BY_PLATE, clock,
                    el, quiet, call >>

\* faulty variant of CallerAfterPush: a failed delivery raises into the caller,
\* whose except clause ends the pass
CallerAfterPushRaising(caller, att) ==
    IF caller.pc = "msg" \/ \E k \in 1..Len(att) : ~att[k].ok THEN Idle ELSE caller

\* where the caller of a push stands once the push has returned: the diff loop
\* at its next record, driver_message at its return statement
CallerAfterPush(caller, att) == IF caller.pc = "msg" THEN Idle ELSE caller

\* the push returns to its caller: the diff loop goes on, driver_message returns
Return ==
    /\ disp.pc = "done" \/ (el.pc = "msg" /\ disp.pc = "none")
    /\ disp' = NoDisp
    /\ el' = CallerAfterPush(el, disp.att)
    /\ UNCHANGED << config, SNAPSHOT, LAST_STATUS_KEY_BY_PLATE, SUBSCRIPTIONS_BY_PLATE,
                    MANUAL_STATUS_BY_PLATE, clock, quiet, call >>

(***************************************************************************)
(* POST /api/driver_message                                                *)
(***************************************************************************)
driver_message_plate(body) == normalize_plate(JStr(PyStr(Get(body, "plate", JStr(<<>>)))))
driver_message_text(body) == Strip(StrOrEmpty(Get(body, "message", JStr(<<>>))))

\* LAST_STATUS_KEY_BY_PLATE[plate] after a driver_message: the key of
\* compute_driver_status({"license_plate": plate}) under the new manual store
ForcedKey(plate, manual, t, dateutil_ok) ==
    compute_driver_status(Movement(JStr(plate), Missing, Missing, Missing, Missing),
                          JStr(<<"e","n">>), manual, t, dateutil_ok).status_key

\* the HTTPException exits of driver_message: 401 on a wrong secret, 400 on a
\* missing plate or message
driver_message_rejects(secret, plate, message) ==
    secret # ADMIN_UPLOAD_SECRET \/ plate = <<>> \/ message = <<>>

DriverMessage(secret, body) ==
    /\ el.pc = "idle"
    /\ \E plate \in { driver_message_plate(body) } :
       \E message \in { driver_message_text(body) } :
       \E manual \in { Put(MANUAL_STATUS_BY_PLATE, plate, message) } :
          IF driver_message_rejects(secret, plate, message)
          THEN UNCHANGED << MANUAL_STATUS_BY_PLATE, LAST_STATUS_KEY_BY_PLATE, disp, el, quiet >>
          ELSE /\ MANUAL_STATUS_BY_PLATE' = manual
               /\ LAST_STATUS_KEY_BY_PLATE' =
                      Put(LAST_STATUS_KEY_BY_PLATE, plate, ForcedKey(plate, manual, now, DATEUTIL_OK))
               /\ disp' = StartDispatch(plate, "MESSAGE_FROM_DISPATCH", DriverMessageBodies(message))
               /\ el' = [Idle EXCEPT !.pc = "msg", !.plate = plate]
               /\ quiet' = (quiet /\ manual = MANUAL_STATUS_BY_PLATE)
    /\ UNCHANGED << config, SNAPSHOT, SUBSCRIPTIONS_BY_PLATE, clock, call >>

(***************************************************************************)
(* POST /api/subscribe (a synchronous handler: it runs on a worker thread, *)
(* also while the event loop is inside a pass or a push)                   *)
(***************************************************************************)
Subscribe(req, sample) ==
    /\ \E plate_n \in { normalize_plate(JStr(req.plate)) } :
       \E subs \in { SubsOf(SUBSCRIPTIONS_BY_PLATE, plate_n) } :
       \E sub_rec \in { [endpoint |-> req.endpoint, lang |-> normalize_lang(req.lang)] } :
          IF ~PUSH_ENABLED \/ geofence_check(sample) # "ok" \/ req.endpoint = NoEndpoint
          THEN UNCHANGED SUBSCRIPTIONS_BY_PLATE
          ELSE SUBSCRIPTIONS_BY_PLATE' =
                   Put(SUBSCRIPTIONS_BY_PLATE, plate_n, SubscribeList(subs, req.endpoint, sub_rec))
    /\ UNCHANGED << config, SNAPSHOT, LAST_STATUS_KEY_BY_PLATE, MANUAL_STATUS_BY_PLATE, clock,
                    el, disp, quiet, call >>

(***************************************************************************)
(* Time passes                                                             *)
(***************************************************************************)
AdvanceClock ==
    /\ clock < MaxClock
    /\ clock' = clock + 1
    /\ \E same \in { KeysAt(clock + 1) = KeysAt(clock) } :
          /\ quiet' = (quiet /\ same)
          /\ el' = [el EXCEPT !.sq = el.sq /\ same]
    /\ UNCHANGED << config, SNAPSHOT, LAST_STATUS_KEY_BY_PLATE, SUBSCRIPTIONS_BY_PLATE,
                    MANUAL_STATUS_BY_PLATE, disp, call >>

NextOn(bodies, messages, subscribes) ==
    \/ \E secret \in Secrets, body \in bodies : UploadSnapshot(secret, body)
    \/ LoopTick
    \/ DiffStep
    \/ PassEnd
    \/ \E ok \in BOOLEAN : Deliver(ok)
    \/ Prune
    \/ Return
    \/ \E secret \in Secrets, body \in messages : DriverMessage(secret, body)
    \/ \E req \in subscribes, sample \in Samples : Subscribe(req, sample)
    \/ AdvanceClock

Next == NextOn(Bodies, DriverMessageRequests, SubscribeRequests)
Spec == Init /\ [][Next]_vars

\* the same service, the traffic confined to the plate "A<TAB>-"
NextTab == NextOn(TabBodies, TabMessageRequests, TabSubscribeRequests)
SpecTab == Init /\ [][NextTab]_vars

\* the same service under the scheduling of the asyncio event loop: the
\* periodic task wakes up again after every sleep, and a pass or a push that
\* has started runs on to its end.  The traffic is confined to one plate whose
\* status changes at 13:15, alone in the snapshot or behind a record whose
\* license_plate is a number.
LoopBodies ==
    { [movements |-> JList(<<mWait>>)],
      [movements |-> JList(<<mNumPlate, mWait>>)] }
LoopMessageRequests == { [plate |-> JStr(<<"a","-">>), message |-> JStr(<<"h","i">>)] }
LoopSubscribeRequests ==
    { [plate |-> <<"a","-">>, lang |-> JStr(<<"d","e">>), endpoint |-> "e1"] }
NextLoop == NextOn(LoopBodies, LoopMessageRequests, LoopSubscribeRequests)
SpecLoop ==
    /\ Init /\ [][NextLoop]_vars
    /\ WF_vars(LoopTick) /\ WF_vars(DiffStep) /\ WF_vars(PassEnd)
    /\ WF_vars(\E ok \in BOOLEAN : Deliver(ok)) /\ WF_vars(Prune) /\ WF_vars(Return)

(***************************************************************************)
(* compute_driver_status on its own: one call on a record, a language, a   *)
(* manual store and a clock reading drawn from the sets below              *)
(***************************************************************************)
SchedZulu == JStr(Chars_2024_05_01 \o <<"T","1","4",":","0","0","Z">>)
SchedDotted == JStr(<<"0","1",".","0","5",".","2","0","2","4"," ","1","4",":","0","0",":","0","0">>)
SchedYearOne == JStr(<<"0","0","0","1","-","0","1","-","0","1"," ","0","0",":","1","0">>)
SchedText == JStr(<<"s","o","o","n">>)
Sched1401 == JStr(Chars_2024_05_01 \o <<" ","1","4",":","0","1">>)
Sched1330 == JStr(Chars_2024_05_01 \o <<" ","1","3",":","3","0">>)

StatusPlates == { Missing, JStr(<<"a","-">>), JNum(5) }
StatusDeparted == { Missing, JBool(TRUE), JStr(<<" ","Y","e","s">>), JStr(<<"n","o">>) }
StatusLocations == { Missing, JStr(<<"D","1">>), JStr(<<" ","W","a","i","t">>) }
StatusCloseDoors == { Missing, JStr(<<"x">>) }
StatusSchedules ==
    { Missing, Sched1400, SchedAware, SchedZulu, SchedDotted, SchedYearOne, SchedText, JNull,
      Sched1401, Sched1330 }
StatusLangs == { JStr(<<"e","n">>), JStr(<<"D","E","-","a","t">>) }
StatusManuals == { EmptyDict, Put(EmptyDict, <<"A">>, <<"h","i">>) }

StatusCalls ==
    { [pc |-> "ready", m |-> Movement(lp, departed, location, close_door, sched),
       lang |-> lang, st |-> NoStatus, at |-> 0, again |-> NoStatus] :
        lp \in StatusPlates, departed \in StatusDeparted, location \in StatusLocations,
        close_door \in StatusCloseDoors, sched \in StatusSchedules, lang \in StatusLangs }

InitStatus ==
    /\ PUSH_ENABLED = FALSE
    /\ DATEUTIL_OK \in BOOLEAN
    /\ SNAPSHOT = JNull
    /\ LAST_STATUS_KEY_BY_PLATE = EmptyDict
    /\ SUBSCRIPTIONS_BY_PLATE = EmptyDict
    /\ MANUAL_STATUS_BY_PLATE \in StatusManuals
    /\ clock \in 1..(MaxClock + 1)
    /\ el = Idle
    /\ disp = NoDisp
    /\ quiet = FALSE
    /\ call \in StatusCalls

\* the call runs to its return statement
StatusReturns ==
    /\ call.pc = "ready"
    /\ ~compute_driver_status_raises(call.m, MANUAL_STATUS_BY_PLATE, DATEUTIL_OK)
    /\ call' = [call EXCEPT !.pc = "returned", !.at = clock,
                            !.st = compute_driver_status(call.m, call.lang, MANUAL_STATUS_BY_PLATE,
                                                         now, DATEUTIL_OK)]
    /\ UNCHANGED << config, SNAPSHOT, LAST_STATUS_KEY_BY_PLATE, SUBSCRIPTIONS_BY_PLATE,
                    MANUAL_STATUS_BY_PLATE, clock, el, disp, quiet >>

\* an exception leaves the call
StatusRaises ==
    /\ call.pc = "ready"
    /\ compute_driver_status_raises(call.m, MANUAL_STATUS_BY_PLATE, DATEUTIL_OK)
    /\ call' = [call EXCEPT !.pc = "raised"]
    /\ UNCHANGED << config, SNAPSHOT, LAST_STATUS_KEY_BY_PLATE, SUBSCRIPTIONS_BY_PLATE,
                    MANUAL_STATUS_BY_PLATE, clock, el, disp, quiet >>

\* a second call on the same record, language and manual store, at any
\* reading of the clock (a call that returned once raises at no reading: what
\* makes it raise does not involve the clock)
StatusRepeats ==
    /\ call.pc = "returned"
    /\ \E c \in 1..(MaxClock + 1) :
          /\ clock' = c
          /\ call' = [call EXCEPT !.pc = "repeated",
                                  !.again = compute_driver_status(call.m, call.lang,
                                                MANUAL_STATUS_BY_PLATE, ClockTimes[c], DATEUTIL_OK)]
    /\ UNCHANGED << config, SNAPSHOT, LAST_STATUS_KEY_BY_PLATE, SUBSCRIPTIONS_BY_PLATE,
                    MANUAL_STATUS_BY_PLATE, el, disp, quiet >>

NextStatus == StatusReturns \/ StatusRaises \/ StatusRepeats
SpecStatus == InitStatus /\ [][NextStatus]_vars

(***************************************************************************)
(* geofence_check on its own: one call on a location sample                *)
(***************************************************************************)
\* now - ts in seconds, on both sides of the limit and far from it
GeofenceAges == { -100000, -121, -120, -1, 0, 1, 120, 121, 100000 }
\* haversine distance from the hub in metres, on both sides of the radius
GeofenceMetres == { 0, 5000, 29999, 30000, 30001, 2000000 }

GeofenceCalls ==
    { [pc |-> "ready", sample |-> [age |-> a, metres |-> d], reason |-> ""] :
        a \in GeofenceAges, d \in GeofenceMetres }

InitGeofence ==
    /\ PUSH_ENABLED = FALSE
    /\ DATEUTIL_OK = FALSE
    /\ SNAPSHOT = JNull
    /\ LAST_STATUS_KEY_BY_PLATE = EmptyDict
    /\ SUBSCRIPTIONS_BY_PLATE = EmptyDict
    /\ MANUAL_STATUS_BY_PLATE = EmptyDict
    /\ clock = 1
    /\ el = Idle
    /\ disp = NoDisp
    /\ quiet = FALSE
    /\ call \in GeofenceCalls

\* geofence_check returns None
GeofenceReturns ==
    /\ call.pc = "ready"
    /\ geofence_check(call.sample) = "ok"
    /\ call' = [call EXCEPT !.pc = "returned", !.reason = "ok"]
    /\ UNCHANGED << config, SNAPSHOT, LAST_STATUS_KEY_BY_PLATE, SUBSCRIPTIONS_BY_PLATE,
                    MANUAL_STATUS_BY_PLATE, clock, el, disp, quiet >>

\* geofence_check raises HTTPException 401 ("stale") or 403 ("range")
GeofenceRaises ==
    /\ call.pc = "ready"
    /\ geofence_check(call.sample) # "ok"
    /\ call' = [call EXCEPT !.pc = "raised", !.reason = geofence_check(call.sample)]
    /\ UNCHANGED << config, SNAPSHOT, LAST_STATUS_KEY_BY_PLATE, SUBSCRIPTIONS_BY_PLATE,
                    MANUAL_STATUS_BY_PLATE, clock, el, disp, quiet >>

NextGeofence == GeofenceReturns \/ GeofenceRaises
SpecGeofence == InitGeofence /\ [][NextGeofence]_vars

(***************************************************************************)
(* build_route_points as get_route calls it: the provider chain ORS, OSRM, *)
(* direct line.  A point is a pair <<lat, lon>>; the k-th point a provider *)
(* answers with is <<1, k>> for ORS and <<2, k>> for OSRM.                 *)
(***************************************************************************)
Origin == <<0, 0>>
Dest == <<0, 1>>

\* "keep max ~1200 points"
MAX_ROUTE_POINTS == 1200

\* int(math.ceil(a / float(b)))
CeilDiv(a, b) == (a + b - 1) \div b

\* pts[::step]
Stride(pts, step) == [k \in 1..CeilDiv(Len(pts), step) |-> pts[(k - 1) * step + 1]]

\* faulty variant of Downsample: the stride alone
DownsampleStrideOnly(pts, dest) ==
    IF Len(pts) > MAX_ROUTE_POINTS
    THEN Stride(pts, CeilDiv(Len(pts), MAX_ROUTE_POINTS))
    ELSE pts

\* the downsampling both fetchers apply to a dense answer
Downsample(pts, dest) ==
    IF Len(pts) > MAX_ROUTE_POINTS
    THEN With(Stride(pts, CeilDiv(Len(pts), MAX_ROUTE_POINTS)), LAMBDA sampled :
             IF sampled # <<>> /\ sampled[Len(sampled)] # dest
             THEN Append(sampled, dest)
             ELSE sampled)
    ELSE pts

\* what urlopen and the decoding of the answer can do: raise (timeout, HTTP
\* error, malformed body), give no route, or give n points of which the last
\* is the destination itself or a point near it
RouteSizes == { 1, 2, 1200, 1201, 2399, 2400, 2401, 3601 }
ProviderOutcomes ==
    { [kind |-> k, n |-> 0, at_dest |-> FALSE] :
        k \in {"timeout", "http_error", "malformed", "empty"} }
    \cup { [kind |-> "points", n |-> n, at_dest |-> b] : n \in RouteSizes, b \in BOOLEAN }

ProviderId(provider) == IF provider = "ORS" THEN 1 ELSE 2

\* the list pts of (lat, lon) pairs decoded from the answer
ResponsePoints(provider, o) ==
    [k \in 1..o.n |-> IF k = o.n /\ o.at_dest THEN Dest ELSE <<ProviderId(provider), k>>]

\* the value a fetcher returns once it has made its request: the points,
\* downsampled, or None (the empty list here; the caller tests truthiness)
FetchResult(provider, o) ==
    IF o.kind = "points" THEN Downsample(ResponsePoints(provider, o), Dest) ELSE <<>>

\* faulty variant of AfterFetch: a failed provider is asked again
AfterFetchRetry(provider, pts) ==
    IF pts # <<>> THEN "return" ELSE provider

\* faulty variant of AfterFetch: after a failed primary the direct line
AfterFetchSkipSecondary(provider, pts) ==
    IF pts # <<>> THEN "return" ELSE "DIRECT"

\* where build_route_points goes with the value of a provider
AfterFetch(provider, pts) ==
    IF pts # <<>> THEN "return"
    ELSE IF provider = "ORS" THEN "OSRM"
    ELSE "DIRECT"

\* the call after provider has given pts
RouteAfter(c, provider, pts) ==
    With(AfterFetch(provider, pts), LAMBDA nxt :
        IF nxt = "return" THEN [c EXCEPT !.pc = "returned", !.route = pts, !.tag = provider]
        ELSE IF nxt = "DIRECT"
        THEN [c EXCEPT !.pc = "returned", !.route = <<Origin, Dest>>, !.tag = "DIRECT"]
        ELSE [c EXCEPT !.pc = nxt])

\* what a provider answered: nothing yet, or not asked for want of a key
NoAnswer == [kind |-> "", n |-> 0, at_dest |-> FALSE]
NoKey == [kind |-> "no key", n |-> 0, at_dest |-> FALSE]

\* os.environ ORS_API_KEY
OrsKeyEnv == { <<>>, <<" ">>, <<"k","1">> }

RouteCalls ==
    { [pc |-> "ORS", key |-> Strip(e), requests |-> [ORS |-> 0, OSRM |-> 0],
       answer |-> [ORS |-> NoAnswer, OSRM |-> NoAnswer], route |-> <<>>, tag |-> ""] :
        e \in OrsKeyEnv }

InitRoute ==
    /\ PUSH_ENABLED = FALSE
    /\ DATEUTIL_OK = FALSE
    /\ SNAPSHOT = JNull
    /\ LAST_STATUS_KEY_BY_PLATE = EmptyDict
    /\ SUBSCRIPTIONS_BY_PLATE = EmptyDict
    /\ MANUAL_STATUS_BY_PLATE = EmptyDict
    /\ clock = 1
    /\ el = Idle
    /\ disp = NoDisp
    /\ quiet = FALSE
    /\ call \in RouteCalls

\* _fetch_ors_route_coords without a key: None, and no request is made
OrsSkipped ==
    /\ call.pc = "ORS"
    /\ Strip(call.key) = <<>>
    /\ call' = RouteAfter([call EXCEPT !.answer.ORS = NoKey], "ORS", <<>>)
    /\ UNCHANGED << config, SNAPSHOT, LAST_STATUS_KEY_BY_PLATE, SUBSCRIPTIONS_BY_PLATE,
                    MANUAL_STATUS_BY_PLATE, clock, el, disp, quiet >>

\* _fetch_ors_route_coords with a key: one request
OrsFetch ==
    /\ call.pc = "ORS"
    /\ Strip(call.key) # <<>>
    /\ \E o \in ProviderOutcomes :
          call' = RouteAfter([call EXCEPT !.requests.ORS = @ + 1, !.answer.ORS = o],
                             "ORS", FetchResult("ORS", o))
    /\ UNCHANGED << config, SNAPSHOT, LAST_STATUS_KEY_BY_PLATE, SUBSCRIPTIONS_BY_PLATE,
                    MANUAL_STATUS_BY_PLATE, clock, el, disp, quiet >>

\* _fetch_osrm_route_coords: one request
OsrmFetch ==
    /\ call.pc = "OSRM"
    /\ \E o \in ProviderOutcomes :
          call' = RouteAfter([call EXCEPT !.requests.OSRM = @ + 1, !.answer.OSRM = o],
                             "OSRM", FetchResult("OSRM", o))
    /\ UNCHANGED << config, SNAPSHOT, LAST_STATUS_KEY_BY_PLATE, SUBSCRIPTIONS_BY_PLATE,
                    MANUAL_STATUS_BY_PLATE, clock, el, disp, quiet >>

NextRoute == OrsSkipped \/ OrsFetch \/ OsrmFetch
SpecRoute == InitRoute /\ [][NextRoute]_vars

(***************************************************************************)
(* resolve_destination on its own: one call on a record, with the two      *)
(* lookup tables LOCATION_BY_CODE (geo) and DESTLAND_BY_CODE (locality)    *)
(***************************************************************************)
_norm_code(s) == RemoveChar(RemoveChar(Upper(Strip(s)), " "), "-")

\* s.split(c)[-1]
AfterLast(s, c) ==
    IF \E i \in 1..Len(s) : s[i] = c
    THEN SubSeq(s, (CHOOSE i \in 1..Len(s) : s[i] = c /\ \A j \in (i+1)..Len(s) : s[j] # c) + 1,
                Len(s))
    ELSE s

\* s.split()[-1], the empty text when s.split() is empty
LastToken(s) ==
    With(Strip(s), LAMBDA t :
        IF \E i \in 1..Len(t) : t[i] \in Whitespace
        THEN SubSeq(t, (CHOOSE i \in 1..Len(t) :
                            t[i] \in Whitespace /\ \A j \in (i+1)..Len(t) : t[j] \notin Whitespace) + 1,
                    Len(t))
        ELSE t)

\* 2 <= len(t) <= 10 and any(ch.isalpha() for ch in t), t being upper case
LooksLikeCode(t) ==
    /\ Len(t) >= 2 /\ Len(t) <= 10
    /\ \E i \in 1..Len(t) : \E a \in 1..26 : Uppercase[a] = t[i]

_extract_code_from_text(v) ==
    With(Upper(Strip(StrOrEmpty(v))), LAMBDA s :
        IF s = <<>> \/ Lower(s) \in NanWords THEN <<>>
        ELSE With(_norm_code(Strip(RemoveChar(AfterLast(s, "("), ")"))), LAMBDA inside :
             IF (\E i \in 1..Len(s) : s[i] = "(") /\ s[Len(s)] = ")"
                /\ Len(inside) >= 2 /\ Len(inside) <= 10
             THEN inside
             ELSE With(_norm_code(s), LAMBDA compact :
                  IF LooksLikeCode(compact) THEN compact
                  ELSE With(_norm_code(LastToken(ReplaceChar(ReplaceChar(s, ",", " "), "/", " "))),
                            LAMBDA last :
                       IF LooksLikeCode(last) THEN last ELSE <<>>))))

\* the first of the keys whose value the record has; None when there is none
RECURSIVE _first_nonempty(_, _)
_first_nonempty(rec, keys) ==
    IF keys = <<>> THEN JNull
    ELSE IF rec[Head(keys)].ty # "missing" /\ _has(rec[Head(keys)]) THEN rec[Head(keys)]
    ELSE _first_nonempty(rec, Tail(keys))

\* the keys of the record the model gives a value, in the order of the source
DestCodeKeys == <<"dest_code", "destination", "destination_text">>
DestTextKeys == <<"destination_text", "destination">>

\* float(str(v).strip()) for the whole numbers used here, None otherwise
_safe_float(v) ==
    IF v.ty = "num" THEN v
    ELSE IF v.ty = "str" /\ Strip(v.s) # <<>> /\ AllDigits(Strip(v.s)) THEN JNum(ToInt(Strip(v.s)))
    ELSE JNull

\* dict.get(code_n) if code_n else None; NoRow stands for None
NoRow == [code |-> <<>>, city |-> <<>>, country |-> <<>>, lat |-> JNull, lon |-> JNull]
RowOf(table, code_n) == IF code_n # <<>> /\ code_n \in DOMAIN table THEN table[code_n] ELSE NoRow

\* faulty variant of CityFromGeo: the city as the geo source has it
CityFromGeoAsIs(loc_city, code_n) == Strip(loc_city)

\* the city of the geo row, a leading "<CODE> " removed
CityFromGeo(loc_city, code_n) ==
    With(Strip(loc_city), LAMBDA city :
        IF code_n # <<>> /\ Len(city) >= Len(code_n) + 1
           /\ SubSeq(Upper(city), 1, Len(code_n) + 1) = code_n \o <<" ">>
        THEN Strip(SubSeq(city, Len(code_n) + 2, Len(city)))
        ELSE city)

\* if X is None: X = loc_row.get("X")
CoordOf(own, loc_row, axis) == IF loc_row # NoRow /\ own.ty = "null" THEN loc_row[axis] ELSE own

DestText(rec, city, country, code_n) ==
    IF city # <<>> /\ country # <<>> /\ code_n # <<>>
    THEN city \o <<",", " ">> \o country \o <<" ", "(">> \o code_n \o <<")">>
    ELSE IF city # <<>> /\ country # <<>> THEN city \o <<",", " ">> \o country
    ELSE IF code_n # <<>> THEN code_n
    ELSE With(_first_nonempty(rec, DestTextKeys), LAMBDA raw :
             IF Truthy(raw) THEN PyStr(raw) ELSE <<"-">>)

\* city and country after the two lookups
CityCountry(loc_row, dl_row, code_n) ==
    With(IF dl_row # NoRow THEN Strip(dl_row.city) ELSE <<>>, LAMBDA dl_city :
    With(IF dl_row # NoRow THEN Strip(dl_row.country) ELSE <<>>, LAMBDA dl_country :
        [city    |-> IF loc_row # NoRow /\ dl_city = <<>>
                     THEN CityFromGeo(loc_row.city, code_n) ELSE dl_city,
         country |-> IF loc_row # NoRow /\ dl_country = <<>>
                     THEN Strip(loc_row.country) ELSE dl_country]))

resolve_destination(rec, LOCATION_BY_CODE, DESTLAND_BY_CODE) ==
    With(_norm_code(_extract_code_from_text(_first_nonempty(rec, DestCodeKeys))), LAMBDA code_n :
    With(RowOf(LOCATION_BY_CODE, code_n), LAMBDA loc_row :
    With(CityCountry(loc_row, RowOf(DESTLAND_BY_CODE, code_n), code_n), LAMBDA cc :
        [dest_text |-> DestText(rec, cc.city, cc.country, code_n),
         lat |-> CoordOf(_safe_float(Get(rec, "dest_lat", JNull)), loc_row, "lat"),
         lon |-> CoordOf(_safe_float(Get(rec, "dest_lon", JNull)), loc_row, "lon"),
         code |-> code_n, city |-> cc.city, country |-> cc.country])))

DestRecord(dest_code, destination, dest_lat) ==
    [ty |-> "dict", dest_code |-> dest_code, destination |-> destination,
     destination_text |-> Missing, dest_lat |-> dest_lat, dest_lon |-> dest_lat]

DestRecords ==
    { DestRecord(JStr(<<"a","b","c">>), Missing, Missing),
      DestRecord(JStr(<<"H","u","b"," ","(","a","b","-","c",")">>), JStr(<<"E","l","s","t">>), JNum(52)),
      DestRecord(Missing, JStr(<<"t","o"," ","E","l","s","t",","," ","a","b","c">>), Missing),
      DestRecord(JStr(<<"n","a","n">>), JStr(<<"1","2","3","4"," ","/"," ","x","y">>), Missing),
      DestRecord(JNum(12), Missing, Missing),
      DestRecord(Missing, Missing, Missing),
      [DestRecord(Missing, Missing, Missing)
          EXCEPT !.destination_text = JStr(<<" ","1","2"," ","3","4">>)],
      [DestRecord(Missing, JStr(<<"?","1">>), Missing)
          EXCEPT !.destination_text = JStr(<<"1","2"," ","3","4">>)] }

GeoRow(city, country, lat) ==
    [code |-> <<"A","B","C">>, city |-> city, country |-> country, lat |-> lat, lon |-> lat]
LocationTables ==
    { EmptyDict,
      Put(EmptyDict, <<"A","B","C">>, GeoRow(<<"A","B","C"," ","W","a","r","e","h","o","u","s","e","1">>, <<"D","E">>, JNum(51))),
      Put(EmptyDict, <<"A","B","C">>, GeoRow(<<"a","b","c"," "," ","D","e","p","o","t"," ","E","l","s","t"," ">>, <<>>, JNull)),
      Put(EmptyDict, <<"A","B","C">>, GeoRow(<<"A","B","C","D"," ","H","u","b">>, <<"D","E">>, JNum(51))),
      Put(EmptyDict, <<"A","B","C">>, GeoRow(<<>>, <<"D","E">>, JNum(51))) }
DestlandTables ==
    { EmptyDict,
      Put(EmptyDict, <<"A","B","C">>, GeoRow(<<"A","r","n","h","e","m">>, <<" ","N","L">>, JNull)),
      Put(EmptyDict, <<"A","B","C">>, GeoRow(<<>>, <<"N","L">>, JNull)),
      Put(EmptyDict, <<"A","B","C">>, GeoRow(<<"A","r","n","h","e","m">>, <<>>, JNull)) }

DestinationCalls ==
    { [pc |-> "ready", rec |-> r, LOCATION_BY_CODE |-> loc, DESTLAND_BY_CODE |-> dl,
       out |-> [dest_text |-> <<>>, lat |-> JNull, lon |-> JNull, code |-> <<>>,
                city |-> <<>>, country |-> <<>>]] :
        r \in DestRecords, loc \in LocationTables, dl \in DestlandTables }

InitDestination ==
    /\ PUSH_ENABLED = FALSE
    /\ DATEUTIL_OK = FALSE
    /\ SNAPSHOT = JNull
    /\ LAST_STATUS_KEY_BY_PLATE = EmptyDict
    /\ SUBSCRIPTIONS_BY_PLATE = EmptyDict
    /\ MANUAL_STATUS_BY_PLATE = EmptyDict
    /\ clock = 1
    /\ el = Idle
    /\ disp = NoDisp
    /\ quiet = FALSE
    /\ call \in DestinationCalls

DestinationResolved ==
    /\ call.pc = "ready"
    /\ call' = [call EXCEPT !.pc = "returned",
                            !.out = resolve_destination(call.rec, call.LOCATION_BY_CODE,
                                                        call.DESTLAND_BY_CODE)]
    /\ UNCHANGED << config, SNAPSHOT, LAST_STATUS_KEY_BY_PLATE, SUBSCRIPTIONS_BY_PLATE,
                    MANUAL_STATUS_BY_PLATE, clock, el, disp, quiet >>

NextDestination == DestinationResolved
SpecDestination == InitDestination /\ [][NextDestination]_vars

(***************************************************************************)
(* normalize_plate on its own: applied to a raw plate, then to its own     *)
(* result                                                                  *)
(***************************************************************************)
MaxPlateLen == 3
PlateChars == { "a", "B", "1", " ", "-", "\t" }

RECURSIVE StringsUpTo(_, _)
StringsUpTo(chars, n) ==
    IF n = 0 THEN { <<>> }
    ELSE With(StringsUpTo(chars, n - 1), LAMBDA shorter :
             shorter \cup { Append(s, c) : s \in shorter, c \in chars })

PlateCalls ==
    { [pc |-> "ready", value |-> x, once |-> <<>>, twice |-> <<>>] :
        x \in StringsUpTo(PlateChars, MaxPlateLen) }

InitPlate ==
    /\ PUSH_ENABLED = FALSE
    /\ DATEUTIL_OK = FALSE
    /\ SNAPSHOT = JNull
    /\ LAST_STATUS_KEY_BY_PLATE = EmptyDict
    /\ SUBSCRIPTIONS_BY_PLATE = EmptyDict
    /\ MANUAL_STATUS_BY_PLATE = EmptyDict
    /\ clock = 1
    /\ el = Idle
    /\ disp = NoDisp
    /\ quiet = FALSE
    /\ call \in PlateCalls

\* plate_n = normalize_plate(plate)
PlateNormalized ==
    /\ call.pc = "ready"
    /\ call' = [call EXCEPT !.pc = "once", !.once = normalize_plate(JStr(call.value))]
    /\ UNCHANGED << config, SNAPSHOT, LAST_STATUS_KEY_BY_PLATE, SUBSCRIPTIONS_BY_PLATE,
                    MANUAL_STATUS_BY_PLATE, clock, el, disp, quiet >>

\* normalize_plate(plate_n): the stored form is normalized again by the next
\* handler that receives it
PlateNormalizedAgain ==
    /\ call.pc = "once"
    /\ call' = [call EXCEPT !.pc = "twice", !.twice = normalize_plate(JStr(call.once))]
    /\ UNCHANGED << config, SNAPSHOT, LAST_STATUS_KEY_BY_PLATE, SUBSCRIPTIONS_BY_PLATE,
                    MANUAL_STATUS_BY_PLATE, clock, el, disp, quiet >>

NextPlate == PlateNormalized \/ PlateNormalizedAgain
SpecPlate == InitPlate /\ [][NextPlate]_vars

(***************************************************************************)
(* _extract_code_from_text on its own: one call on a destination text made *)
(* of a head, a core and the way the core is written                       *)
(***************************************************************************)
ExtractHeads == { <<>>,
                   <<"H","u","b"," ">>,
                   <<"E","l","s","t",","," ">>,
                   <<"R","o","t","t","e","r","d","a","m"," ","/"," ">>,
                   <<"1","2"," ">> }
ExtractCores == { <<"a","b">>,
                   <<"a",".","b">>,
                   <<"1","2">>,
                   <<"x">>,
                   <<"a","-","b"," ","c">>,
                   <<"a","b","c","d","e","f","g","h","i","j","k">> }
ExtractForms == { "bare", "parenthesized", "spaced" }
ExtractText(head, core, form) ==
    IF form = "parenthesized" THEN head \o <<"(">> \o core \o <<")">>
    ELSE IF form = "spaced" THEN <<" ">> \o head \o core \o <<" ">>
    ELSE head \o core

ExtractCalls ==
    { [pc |-> "ready", text |-> ExtractText(h, c, f), code |-> <<>>] :
        h \in ExtractHeads, c \in ExtractCores, f \in ExtractForms }

InitExtract ==
    /\ PUSH_ENABLED = FALSE
    /\ DATEUTIL_OK = FALSE
    /\ SNAPSHOT = JNull
    /\ LAST_STATUS_KEY_BY_PLATE = EmptyDict
    /\ SUBSCRIPTIONS_BY_PLATE = EmptyDict
    /\ MANUAL_STATUS_BY_PLATE = EmptyDict
    /\ clock = 1
    /\ el = Idle
    /\ disp = NoDisp
    /\ quiet = FALSE
    /\ call \in ExtractCalls

\* code = _extract_code_from_text(raw_code)
CodeExtracted ==
    /\ call.pc = "ready"
    /\ call' = [call EXCEPT !.pc = "returned",
                            !.code = _extract_code_from_text(JStr(call.text))]
    /\ UNCHANGED << config, SNAPSHOT, LAST_STATUS_KEY_BY_PLATE, SUBSCRIPTIONS_BY_PLATE,
                    MANUAL_STATUS_BY_PLATE, clock, el, disp, quiet >>

NextExtract == CodeExtracted
SpecExtract == InitExtract /\ [][NextExtract]_vars

(***************************************************************************)
(* POST /api/subscribe on two worker threads at once, for one plate and    *)
(* two endpoints.  The handler is not atomic: a thread can be preempted    *)
(* between reading the plate's list and storing the new one.               *)
(***************************************************************************)
SubscribeThreads == { 1, 2 }
SubscribeEndpoints == { "e1", "e2", "e3" }
SubscribeThread(endpoint, sample) ==
    [pc |-> "start", plate |-> <<"a","-">>, lang |-> JStr(<<"d","e">>), endpoint |-> endpoint,
     sample |-> sample, subs |-> <<>>]
SubscribeCalls ==
    { [th |-> <<SubscribeThread(e1, s1), SubscribeThread(e2, s2)>>] :
        e1 \in SubscribeEndpoints, e2 \in SubscribeEndpoints \ {"e3"},
        s1 \in Samples, s2 \in {[age |-> 0, metres |-> 5000]} }

InitSubscribe ==
    /\ PUSH_ENABLED = TRUE
    /\ DATEUTIL_OK = FALSE
    /\ SNAPSHOT = JNull
    /\ LAST_STATUS_KEY_BY_PLATE = EmptyDict
    /\ SUBSCRIPTIONS_BY_PLATE \in
           { EmptyDict, Put(EmptyDict, <<"A">>, <<[endpoint |-> "e3", lang |-> <<"e","n">>]>>) }
    /\ MANUAL_STATUS_BY_PLATE = EmptyDict
    /\ clock = 1
    /\ el = Idle
    /\ disp = NoDisp
    /\ quiet = FALSE
    /\ call \in SubscribeCalls

\* subscribe up to subs = SUBSCRIPTIONS_BY_PLATE.get(plate_n, []) or []
SubscribeRead(t) ==
    /\ call.th[t].pc = "start"
    /\ call' = IF ~PUSH_ENABLED \/ geofence_check(call.th[t].sample) # "ok"
                  \/ call.th[t].endpoint = NoEndpoint
               THEN [call EXCEPT !.th[t].pc = "rejected"]
               ELSE [call EXCEPT !.th[t].pc = "read",
                                 !.th[t].subs = SubsOf(SUBSCRIPTIONS_BY_PLATE,
                                                       normalize_plate(JStr(call.th[t].plate)))]
    /\ UNCHANGED << config, SNAPSHOT, LAST_STATUS_KEY_BY_PLATE, SUBSCRIPTIONS_BY_PLATE,
                    MANUAL_STATUS_BY_PLATE, clock, el, disp, quiet >>

\* the rest of subscribe: the filter, the append and
\* SUBSCRIPTIONS_BY_PLATE[plate_n] = subs
SubscribeWrite(t) ==
    /\ call.th[t].pc = "read"
    /\ SUBSCRIPTIONS_BY_PLATE' =
           Put(SUBSCRIPTIONS_BY_PLATE, normalize_plate(JStr(call.th[t].plate)),
               SubscribeList(call.th[t].subs, call.th[t].endpoint,
                             [endpoint |-> call.th[t].endpoint,
                              lang |-> normalize_lang(call.th[t].lang)]))
    /\ call' = [call EXCEPT !.th[t].pc = "done"]
    /\ UNCHANGED << config, SNAPSHOT, LAST_STATUS_KEY_BY_PLATE, MANUAL_STATUS_BY_PLATE, clock,
                    el, disp, quiet >>

NextSubscribe == \E t \in SubscribeThreads : SubscribeRead(t) \/ SubscribeWrite(t)
SpecSubscribe == InitSubscribe /\ [][NextSubscribe]_vars

(***************************************************************************)
(* The geofenced handlers get_status, get_route and subscribe, called by   *)
(* clients with location samples.  call.viewed is the count of             *)
(* VIEWED_BY_PLATE for the plate, call.requests the number of requests     *)
(* made to routing providers, call.last the last request and its HTTP      *)
(* status.  What _get_plate_record and resolve_destination find for the    *)
(* plate is the snapshot's affair and is drawn with the request.           *)
(***************************************************************************)
MaxGateCalls == 3
PlateRecords == { "none", "one", "many" }
NoRequest == [handler |-> "", sample |-> [age |-> 0, metres |-> 0], status |-> 0]
GateCall == [n |-> 0, viewed |-> 0, requests |-> 0, last |-> NoRequest]

\* the HTTP status of the HTTPException geofence_check raises, 200 when it returns
GeofenceStatus(sample) ==
    IF geofence_check(sample) = "stale" THEN 401
    ELSE IF geofence_check(sample) = "range" THEN 403
    ELSE 200

\* the HTTP status of _get_plate_record: 409 on several records of the plate
PlateRecordStatus(rec) == IF rec = "many" THEN 409 ELSE 200

\* faulty variant of ViewedAfter: the view is counted before the geofence check
ViewedAfterCountsRejected(count, gate, rec) ==
    IF rec = "one" THEN count + 1 ELSE count

\* VIEWED_BY_PLATE[p]["count"] after get_status
ViewedAfter(count, gate, rec) ==
    IF gate = 200 /\ rec = "one" THEN count + 1 ELSE count

InitGate ==
    /\ PUSH_ENABLED = TRUE
    /\ DATEUTIL_OK = FALSE
    /\ SNAPSHOT = JNull
    /\ LAST_STATUS_KEY_BY_PLATE = EmptyDict
    /\ SUBSCRIPTIONS_BY_PLATE = EmptyDict
    /\ MANUAL_STATUS_BY_PLATE = EmptyDict
    /\ clock = 1
    /\ el = Idle
    /\ disp = NoDisp
    /\ quiet = FALSE
    /\ call = GateCall

\* GET /api/status
GetStatus(sample, rec) ==
    /\ call.n < MaxGateCalls
    /\ \E gate \in { GeofenceStatus(sample) } :
          call' = [call EXCEPT
                      !.n = @ + 1,
                      !.viewed = ViewedAfter(@, gate, rec),
                      !.last = [handler |-> "get_status", sample |-> sample,
                                status |-> IF gate # 200 THEN gate ELSE PlateRecordStatus(rec)]]
    /\ UNCHANGED << config, SNAPSHOT, LAST_STATUS_KEY_BY_PLATE, SUBSCRIPTIONS_BY_PLATE,
                    MANUAL_STATUS_BY_PLATE, clock, el, disp, quiet >>

\* GET /api/route: asked is the number of providers build_route_points asks
\* (one when the first to be asked answers, two when the primary fails)
GetRoute(sample, rec, has_coordinates, asked) ==
    /\ call.n < MaxGateCalls
    /\ \E gate \in { GeofenceStatus(sample) } :
       \E status \in { IF gate # 200 THEN gate
                       ELSE IF rec = "many" THEN 409
                       ELSE IF rec = "none" \/ ~has_coordinates THEN 404
                       ELSE 200 } :
          call' = [call EXCEPT
                      !.n = @ + 1,
                      !.requests = IF status = 200 THEN @ + asked ELSE @,
                      !.last = [handler |-> "get_route", sample |-> sample, status |-> status]]
    /\ UNCHANGED << config, SNAPSHOT, LAST_STATUS_KEY_BY_PLATE, SUBSCRIPTIONS_BY_PLATE,
                    MANUAL_STATUS_BY_PLATE, clock, el, disp, quiet >>

NextGate ==
    \/ \E sample \in Samples, rec \in PlateRecords : GetStatus(sample, rec)
    \/ \E sample \in Samples, rec \in PlateRecords, has_coordinates \in BOOLEAN, asked \in {1, 2} :
          GetRoute(sample, rec, has_coordinates, asked)
    \/ \E req \in SubscribeRequests, sample \in Samples : Subscribe(req, sample)
SpecGate == InitGate /\ [][NextGate]_vars

(***************************************************************************)
(* The writers of SUBSCRIPTIONS_BY_PLATE: the event loop (uploads, the     *)
(* periodic pass, manual messages and their pushes) running alongside the  *)
(* worker threads of subscribe, get_status and get_route                   *)
(***************************************************************************)
InitRegistry ==
    /\ PUSH_ENABLED \in BOOLEAN
    /\ DATEUTIL_OK = TRUE
    /\ SNAPSHOT = JNull
    /\ LAST_STATUS_KEY_BY_PLATE = EmptyDict
    /\ SUBSCRIPTIONS_BY_PLATE = EmptyDict
    /\ MANUAL_STATUS_BY_PLATE = EmptyDict
    /\ clock = 1
    /\ el = Idle
    /\ disp = NoDisp
    /\ quiet = FALSE
    /\ call = GateCall

\* the requests of the worker threads: inside the geofence and stale
RegistrySamples == { [age |-> 0, metres |-> 5000], [age |-> 121, metres |-> 5000] }

NextRegistry ==
    \/ NextLoop
    \/ \E sample \in RegistrySamples : GetStatus(sample, "one")
    \/ \E sample \in RegistrySamples : GetRoute(sample, "one", TRUE, 1)
SpecRegistry == InitRegistry /\ [][NextRegistry]_vars

(***************************************************************************)
(* GET /api/traffic_delay (a synchronous handler: each request runs on a   *)
(* worker thread) and the cache in front of the delay provider.  call is   *)
(* the state of the cache, the wall clock in seconds, the threads and the  *)
(* log of provider requests.  A coordinate is a count of 0.00001 degrees.  *)
(***************************************************************************)
_TRAFFIC_TTL_SEC == 90

\* how many requests a behaviour starts, and how many times its clock moves
MaxTrafficRequests == 2
MaxTrafficTicks == 2
TrafficThreads == { 1, 2 }
\* the clock moves by a second or by the time to live
TrafficTicks == { 1, _TRAFFIC_TTL_SEC }

NotFloat == [ty |-> "bad", v |-> 0]
NanFloat == [ty |-> "nan", v |-> 0]
\* float(text) of the coordinate texts used here
ParseFloat(text) ==
    CASE text = "50.00001" -> [ty |-> "num", v |-> 5000001]
      [] text = "50.00002" -> [ty |-> "num", v |-> 5000002]
      [] text = "50.00011" -> [ty |-> "num", v |-> 5000011]
      [] text = "8.0"      -> [ty |-> "num", v |-> 800000]
      [] text = "51"       -> [ty |-> "num", v |-> 5100000]
      [] text = "9"        -> [ty |-> "num", v |-> 900000]
      [] text = "nan"      -> NanFloat
      [] text = "x"        -> NotFloat

\* round(x, 4) of a coordinate that is not half way between two results
Round4(x) ==
    IF x.ty # "num" THEN x
    ELSE CASE x.v % 10 < 5 -> [x EXCEPT !.v = x.v - (x.v % 10)]
           [] x.v % 10 > 5 -> [x EXCEPT !.v = x.v - (x.v % 10) + 10]

\* the parts of o or d after split(",", 1), converted: <<>> when the unpacking
\* or a float() raises
ParseCoords(parts) ==
    IF Len(parts) # 2 THEN <<>>
    ELSE IF \E k \in 1..2 : ParseFloat(parts[k]) = NotFloat THEN <<>>
    ELSE << ParseFloat(parts[1]), ParseFloat(parts[2]) >>

\* (depart or "").strip()[:16]
DepartBucket(depart) ==
    IF Len(Strip(depart)) > 16 THEN SubSeq(Strip(depart), 1, 16) ELSE Strip(depart)

\* cache_key
TrafficCacheKey(o, d, depart) ==
    << Round4(o[1]), Round4(o[2]), Round4(d[1]), Round4(d[2]), DepartBucket(depart) >>

\* a key holding a NaN equals no key, itself included: round() makes a new
\* float object on every request, and NaN != NaN
KeyNeverFound(key) == \E k \in 1..4 : key[k].ty = "nan"

Depart_14_00_30 == Chars_2024_05_01 \o <<"T","1","4",":","0","0",":","3","0">>
Depart_14_00_59 == <<" ">> \o Chars_2024_05_01 \o <<"T","1","4",":","0","0",":","5","9">>
TrafficRequests ==
    { [o |-> <<"50.00001", "8.0">>, d |-> <<"51", "9">>, depart |-> Depart_14_00_30],
      [o |-> <<"50.00002", "8.0">>, d |-> <<"51", "9">>, depart |-> Depart_14_00_59],
      [o |-> <<"50.00011", "8.0">>, d |-> <<"51", "9">>, depart |-> <<>>],
      [o |-> <<"nan", "8.0">>, d |-> <<"51", "9">>, depart |-> <<>>],
      [o |-> <<"50.00001">>, d |-> <<"x", "9">>, depart |-> <<>>] }

\* what _here_fetch_delay_minutes returns once it has made its request:
\* (delay_min, None) or (None, error)
HereOutcomes ==
    { [delay_min |-> 5, err |-> ""], [delay_min |-> 0, err |-> "HERE: no routes"] }
HereKeyMissing == [delay_min |-> 0, err |-> "HERE_API_KEY missing on server"]

\* the payload traffic_delay builds from the provider's result
TrafficPayload(res) ==
    IF res.err # "" THEN [ok |-> FALSE, delay_min |-> 0, error |-> res.err]
    ELSE [ok |-> TRUE, delay_min |-> res.delay_min, error |-> ""]

InvalidCoords == [ok |-> FALSE, delay_min |-> 0, error |-> "invalid o/d coords"]
NoPayload == [ok |-> FALSE, delay_min |-> 0, error |-> ""]

ThreadIdle == [pc |-> "idle", key |-> <<>>, out |-> NoPayload]
NoReturn == [src |-> "", status |-> 0, age |-> 0, payload |-> NoPayload]

InitTraffic ==
    /\ PUSH_ENABLED = FALSE
    /\ DATEUTIL_OK = FALSE
    /\ SNAPSHOT = JNull
    /\ LAST_STATUS_KEY_BY_PLATE = EmptyDict
    /\ SUBSCRIPTIONS_BY_PLATE = EmptyDict
    /\ MANUAL_STATUS_BY_PLATE = EmptyDict
    /\ clock = 1
    /\ el = Idle
    /\ disp = NoDisp
    /\ quiet = FALSE
    /\ \E here_key \in BOOLEAN :
          call = [HERE_API_KEY |-> here_key, _TRAFFIC_CACHE |-> EmptyDict, orphans |-> 0,
                  time |-> 0, ticks |-> 0, n |-> 0,
                  thr |-> [t \in TrafficThreads |-> ThreadIdle],
                  ret |-> [t \in TrafficThreads |-> NoReturn],
                  lookups |-> <<>>]

\* traffic_delay up to its cache read: 401 on a wrong secret, the error
\* payload on coordinates that do not parse
TrafficDelay(t, secret, req) ==
    /\ call.thr[t].pc = "idle"
    /\ call.n < MaxTrafficRequests
    /\ \E o \in { ParseCoords(req.o) }, d \in { ParseCoords(req.d) } :
          call' =
             IF secret # ADMIN_UPLOAD_SECRET
             THEN [call EXCEPT !.n = @ + 1, !.ret[t] = [NoReturn EXCEPT !.status = 401]]
             ELSE IF o = <<>> \/ d = <<>>
             THEN [call EXCEPT !.n = @ + 1,
                               !.ret[t] = [src |-> "parse", status |-> 200, age |-> 0,
                                           payload |-> InvalidCoords]]
             ELSE [call EXCEPT !.n = @ + 1, !.ret[t] = NoReturn,
                               !.thr[t] = [pc |-> "get", out |-> NoPayload,
                                           key |-> TrafficCacheKey(o, d, req.depart)]]
    /\ UNCHANGED << config, SNAPSHOT, LAST_STATUS_KEY_BY_PLATE, SUBSCRIPTIONS_BY_PLATE,
                    MANUAL_STATUS_BY_PLATE, clock, el, disp, quiet >>

\* _traffic_cache_get up to its pop: a miss, an expired entry, or the payload,
\* which traffic_delay returns
TrafficCacheGet(t) ==
    /\ call.thr[t].pc = "get"
    /\ \E key \in { call.thr[t].key } :
          call' =
             IF KeyNeverFound(key) \/ key \notin DOMAIN call._TRAFFIC_CACHE
             THEN [call EXCEPT !.thr[t].pc = "fetch"]
             ELSE IF call.time - call._TRAFFIC_CACHE[key].ts > _TRAFFIC_TTL_SEC
             THEN [call EXCEPT !.thr[t].pc = "pop"]
             ELSE [call EXCEPT !.thr[t] = ThreadIdle,
                               !.ret[t] = [src |-> "cache", status |-> 200,
                                           age |-> call.time - call._TRAFFIC_CACHE[key].ts,
                                           payload |-> call._TRAFFIC_CACHE[key].payload]]
    /\ UNCHANGED << config, SNAPSHOT, LAST_STATUS_KEY_BY_PLATE, SUBSCRIPTIONS_BY_PLATE,
                    MANUAL_STATUS_BY_PLATE, clock, el, disp, quiet >>

\* _TRAFFIC_CACHE.pop(key, None)
TrafficCachePop(t) ==
    /\ call.thr[t].pc = "pop"
    /\ call' = [call EXCEPT
                   !.thr[t].pc = "fetch",
                   !._TRAFFIC_CACHE = [k \in (DOMAIN @) \ {call.thr[t].key} |-> @[k]]]
    /\ UNCHANGED << config, SNAPSHOT, LAST_STATUS_KEY_BY_PLATE, SUBSCRIPTIONS_BY_PLATE,
                    MANUAL_STATUS_BY_PLATE, clock, el, disp, quiet >>

\* the log of provider requests after _here_fetch_delay_minutes: none is made
\* without a key
LookupsAfter(lookups, here_key, key, at) ==
    IF here_key THEN Append(lookups, [key |-> key, at |-> at]) ELSE lookups

\* _here_fetch_delay_minutes and the building of the payload
TrafficFetch(t, res) ==
    /\ call.thr[t].pc = "fetch"
    /\ call' = [call EXCEPT
                   !.lookups = LookupsAfter(@, call.HERE_API_KEY, call.thr[t].key, call.time),
                   !.thr[t].pc = "set",
                   !.thr[t].out = TrafficPayload(IF call.HERE_API_KEY THEN res
                                                 ELSE HereKeyMissing)]
    /\ UNCHANGED << config, SNAPSHOT, LAST_STATUS_KEY_BY_PLATE, SUBSCRIPTIONS_BY_PLATE,
                    MANUAL_STATUS_BY_PLATE, clock, el, disp, quiet >>

\* _traffic_cache_set, and the return of the payload
TrafficCacheSet(t) ==
    /\ call.thr[t].pc = "set"
    /\ \E key \in { call.thr[t].key } :
          call' = [call EXCEPT
                      !._TRAFFIC_CACHE =
                          IF KeyNeverFound(key) THEN @
                          ELSE Put(@, key, [ts |-> call.time, payload |-> call.thr[t].out]),
                      !.orphans = IF KeyNeverFound(key) THEN @ + 1 ELSE @,
                      !.thr[t] = ThreadIdle,
                      !.ret[t] = [src |-> "provider", status |-> 200, age |-> 0,
                                  payload |-> call.thr[t].out]]
    /\ UNCHANGED << config, SNAPSHOT, LAST_STATUS_KEY_BY_PLATE, SUBSCRIPTIONS_BY_PLATE,
                    MANUAL_STATUS_BY_PLATE, clock, el, disp, quiet >>

\* time.time() moves on
TrafficTick(step) ==
    /\ call.ticks < MaxTrafficTicks
    /\ call' = [call EXCEPT !.time = @ + step, !.ticks = @ + 1]
    /\ UNCHANGED << config, SNAPSHOT, LAST_STATUS_KEY_BY_PLATE, SUBSCRIPTIONS_BY_PLATE,
                    MANUAL_STATUS_BY_PLATE, clock, el, disp, quiet >>

NextTraffic ==
    \/ \E t \in TrafficThreads, secret \in Secrets, req \in TrafficRequests :
          TrafficDelay(t, secret, req)
    \/ \E t \in TrafficThreads : TrafficCacheGet(t)
    \/ \E t \in TrafficThreads : TrafficCachePop(t)
    \/ \E t \in TrafficThreads, res \in HereOutcomes : TrafficFetch(t, res)
    \/ \E t \in TrafficThreads : TrafficCacheSet(t)
    \/ \E step \in TrafficTicks : TrafficTick(step)
SpecTraffic == InitTraffic /\ [][NextTraffic]_vars

(***************************************************************************)
(* Properties                                                              *)
(***************************************************************************)
\* a status-change push is in progress (or just finished) inside a diff pass
InStatusPush == el.pc = "pass" /\ disp.pc \in {"send", "done"}

\* the subscriptions of the delivery attempts made so far, in order
Attempted == [k \in 1..Len(disp.att) |-> disp.att[k].sub]

\* the subscriptions whose delivery succeeded, in order
RECURSIVE Succeeded(_)
Succeeded(att) ==
    IF att = <<>> THEN <<>>
    ELSE IF Head(att).ok THEN <<Head(att).sub>> \o Succeeded(Tail(att))
    ELSE Succeeded(Tail(att))

\* C1: the diff pass that seeds a plate (finds no entry for it in
\* LAST_STATUS_KEY_BY_PLATE and stores its key) makes no delivery attempt
\* for that plate.
C1_SeedingPassIsSilent ==
    InStatusPush => disp.plate \notin el.seeded

\* C2: a status dispatch starts only on a plate whose cached key exists and
\* differs from the computed one; it takes the subscriptions registered at
\* that moment, the same step stores the new key (so that no later pass finds
\* the same change again), and when the dispatch ends each of those
\* subscriptions has had exactly one delivery attempt.
C2_ChangeDispatchedOnce ==
    [][ /\ (el.pc = "pass" /\ disp.pc = "none" /\ disp'.pc = "send") =>
             /\ disp'.plate \in DOMAIN LAST_STATUS_KEY_BY_PLATE
             /\ LAST_STATUS_KEY_BY_PLATE'[disp'.plate] # LAST_STATUS_KEY_BY_PLATE[disp'.plate]
             /\ LAST_STATUS_KEY_BY_PLATE'[disp'.plate]
                    = KeyOf(_snapshot_movements(SNAPSHOT)[el.i], MANUAL_STATUS_BY_PLATE, now,
                            DATEUTIL_OK)
             /\ disp'.subs = SubsOf(SUBSCRIPTIONS_BY_PLATE, disp'.plate)
             /\ disp'.att = <<>>
        /\ (el.pc = "pass" /\ disp.pc = "send" /\ disp'.pc = "done") =>
             Attempted = disp.subs
      ]_vars

\* C2 witness: a status dispatch to two subscriptions has ended
C2_Witness ==
    /\ InStatusPush /\ disp.pc = "done"
    /\ Len(disp.subs) = 2 /\ Len(disp.att) = 2
    /\ LAST_STATUS_KEY_BY_PLATE[disp.plate] = "REPORT_OFFICE"

\* C3: a diff pass that starts when neither the snapshot, the manual messages
\* nor the status keys the clock gives have changed since the previous pass
\* started makes no delivery attempt.
C3_QuietPassIsSilent ==
    (el.pc = "pass" /\ el.sq) => disp.pc = "none"

\* C4: the list a dispatch writes back to SUBSCRIPTIONS_BY_PLATE[plate] holds
\* the subscriptions whose delivery succeeded, in their original order, and
\* none whose delivery raised.
C4_PruneKeepsSucceeded ==
    [][ (disp.pc = "send" /\ disp'.pc = "done") =>
            /\ SUBSCRIPTIONS_BY_PLATE'[disp.plate] = Succeeded(disp.att)
            /\ \A k \in 1..Len(disp.att) :
                   disp.att[k].ok <=>
                       \E n \in 1..Len(SUBSCRIPTIONS_BY_PLATE'[disp.plate]) :
                           SUBSCRIPTIONS_BY_PLATE'[disp.plate][n] = disp.att[k].sub
      ]_vars

\* C4 witness: a dispatch ended with the first delivery raised and the second
\* succeeded, and the registry holds the second subscription only
C4_Witness ==
    /\ disp.pc = "done" /\ Len(disp.att) = 2
    /\ ~disp.att[1].ok /\ disp.att[2].ok
    /\ SUBSCRIPTIONS_BY_PLATE[disp.plate] = <<disp.subs[2]>>

\* C5: within a dispatch the delivery attempts follow the list of
\* subscriptions taken when it started, one attempt each, whatever the
\* outcome of the earlier attempts; when the dispatch ends every one of
\* them has been attempted.
C5_EverySubscriptionAttempted ==
    /\ disp.pc \in {"send", "done"} =>
           /\ Len(disp.att) <= Len(disp.subs)
           /\ Attempted = SubSeq(disp.subs, 1, Len(disp.att))
    /\ disp.pc = "done" => Attempted = disp.subs

\* C5 witness: the first delivery raised and the second subscription was
\* attempted all the same
C5_Witness ==
    /\ disp.pc = "done" /\ Len(disp.subs) = 2
    /\ ~disp.att[1].ok
    /\ disp.att[2].sub = disp.subs[2]

\* no two subscriptions of a plate have the same endpoint
NoDuplicateEndpoints ==
    \A p \in DOMAIN SUBSCRIPTIONS_BY_PLATE :
        \A a, b \in 1..Len(SUBSCRIPTIONS_BY_PLATE[p]) :
            SUBSCRIPTIONS_BY_PLATE[p][a].endpoint = SUBSCRIPTIONS_BY_PLATE[p][b].endpoint => a = b

\* new is old with the entry of the last element's endpoint dropped and that
\* element appended
Replaced(old, new) ==
    /\ new # <<>>
    /\ \A k \in 1..(Len(new) - 1) : new[k].endpoint # new[Len(new)].endpoint
    /\ \E drop \in 0..Len(old) :
          /\ drop # 0 => old[drop].endpoint = new[Len(new)].endpoint
          /\ SubSeq(new, 1, Len(new) - 1)
                 = SubSeq(old, 1, IF drop = 0 THEN Len(old) ELSE drop - 1)
                   \o (IF drop = 0 THEN <<>> ELSE SubSeq(old, drop + 1, Len(old)))
    /\ (\E k \in 1..Len(old) : old[k].endpoint = new[Len(new)].endpoint) => Len(new) = Len(old)

C7_ManualKeyCached ==
    el.pc = "msg" =>
        LAST_STATUS_KEY_BY_PLATE[el.plate] = ManualKey(MANUAL_STATUS_BY_PLATE[el.plate])

\* C8: a successful driver_message starts a dispatch to the subscriptions the
\* plate has at that moment, whatever the cache holds; every delivery attempt
\* of it carries the message text, whatever the language of the subscription,
\* and when it ends each of those subscriptions has had exactly one attempt.
C8_MessagePushedVerbatim ==
    /\ [][ (el.pc = "idle" /\ el'.pc = "msg") =>
              IF SubsOf(SUBSCRIPTIONS_BY_PLATE, el'.plate) = <<>>
              THEN disp'.pc = "none"
              ELSE /\ disp'.pc = "send" /\ disp'.plate = el'.plate /\ disp'.att = <<>>
                   /\ disp'.subs = SubsOf(SUBSCRIPTIONS_BY_PLATE, el'.plate)
         ]_vars
    /\ [](el.pc = "msg" /\ disp.pc \in {"send", "done"} =>
              /\ \A k \in 1..Len(disp.att) :
                     disp.att[k].body = MANUAL_STATUS_BY_PLATE[el.plate]
              /\ Attempted = SubSeq(disp.subs, 1, Len(disp.att))
              /\ disp.pc = "done" => Attempted = disp.subs)

\* C8 witness: with no snapshot ever uploaded, the message "hi" has been sent
\* to a German and to an English subscription of the plate
C8_Witness ==
    /\ el.pc = "msg" /\ disp.pc = "done" /\ SNAPSHOT = JNull
    /\ Len(disp.att) = 2
    /\ disp.att[1].sub.lang = <<"d","e">> /\ disp.att[2].sub.lang = <<"e","n">>
    /\ disp.att[1].body = <<"h","i">> /\ disp.att[2].body = <<"h","i">>

\* C9: a call of compute_driver_status never ends in an exception.
C9_NeverRaises ==
    call.pc # "raised"

\* C10 (as stated): the status_key of every returned status is one of the
\* five fixed keys.
C10_KeyInClosedSet ==
    call.pc = "returned" => call.st.status_key \in StatusKeys

\* C10 (amended): the status_key of a returned status is one of the five
\* fixed keys when the record's plate has no manual message, and the
\* fingerprint key of the message when it has one.
C10_KeyInClosedSetUnlessManual ==
    call.pc = "returned" =>
        IF ManualMessage(call.m, MANUAL_STATUS_BY_PLATE) = <<>>
        THEN call.st.status_key \in StatusKeys
        ELSE call.st.status_key = ManualKey(ManualMessage(call.m, MANUAL_STATUS_BY_PLATE))

\* C10 witness: a departed record whose plate has the manual message "hi"
\* returned the fingerprint key of "hi"
C10_Witness ==
    /\ call.pc = "returned"
    /\ call.m.license_plate = JStr(<<"a","-">>)
    /\ call.m.departed = JBool(TRUE)
    /\ MANUAL_STATUS_BY_PLATE = Put(EmptyDict, <<"A">>, <<"h","i">>)
    /\ call.st.status_key = "driver_message:c22b5f917834"

\* the record's location field as text, stripped
LocationText(m) == Strip(StrOrEmpty(Get(m, "location", JStr(<<>>))))

\* the record has a location that is neither empty, the "wait" sentinel in
\* any letter case, nor one of the not-a-value words
LocationGiven(m) ==
    /\ LocationText(m) # <<>>
    /\ Lower(LocationText(m)) # <<"w","a","i","t">>
    /\ Lower(LocationText(m)) \notin NanWords

\* C11: the status_key of a returned status is decided by the first guard
\* that matches, in the order manual message, departed, location, close-door,
\* time: a manual message wins over departed, a location wins over the
\* close-door flag, and a location that is the "wait" sentinel in any letter
\* case never yields LOCATION, the close-door or time branch deciding instead.
C11_FirstMatchWins ==
    call.pc = "returned" =>
        LET m == call.m
            msg == ManualMessage(m, MANUAL_STATUS_BY_PLATE)
            key == call.st.status_key
        IN  /\ msg # <<>> => key = ManualKey(msg)
            /\ (msg = <<>> /\ Departed(m)) => key = "DEPARTED"
            /\ (msg = <<>> /\ ~Departed(m) /\ LocationGiven(m)) => key = "LOCATION"
            /\ (msg = <<>> /\ ~Departed(m) /\ ~LocationGiven(m)) =>
                   IF _has(Get(m, "close_door", JStr(<<>>)))
                   THEN key = "CLOSEDOOR_NO_LOCATION"
                   ELSE key \in {"LOADING_WAIT", "REPORT_OFFICE"}
            /\ Lower(LocationText(m)) = <<"w","a","i","t">> => key # "LOCATION"

\* C11 witness: a record at location " Wait" with the close-door flag, not
\* departed and without manual message, returned CLOSEDOOR_NO_LOCATION
C11_Witness ==
    /\ call.pc = "returned"
    /\ call.m.location = JStr(<<" ","W","a","i","t">>)
    /\ call.m.close_door = JStr(<<"x">>)
    /\ call.m.departed = Missing
    /\ MANUAL_STATUS_BY_PLATE = EmptyDict
    /\ call.st.status_key = "CLOSEDOOR_NO_LOCATION"

\* the record reaches the time branch: no manual message, not departed, no
\* location, no close-door flag
InTimeBranch(m) ==
    /\ ManualMessage(m, MANUAL_STATUS_BY_PLATE) = <<>>
    /\ ~Departed(m)
    /\ ~LocationGiven(m)
    /\ ~_has(Get(m, "close_door", JStr(<<>>)))

\* the parsed schedule lies more than 45 minutes after the clock reading t
\* (days apart are told by the day alone, which keeps the numbers small)
Beyond45(sched, t) ==
    \/ sched.ord - t.ord > 1
    \/ /\ sched.ord - t.ord \in {-1, 0, 1}
       /\ (sched.ord - t.ord) * 86400 + (sched.sec - t.sec) > 45 * 60

\* C12: a status returned from the time branch has the key LOADING_WAIT when
\* the schedule parses and lies more than 45 minutes after the clock reading,
\* and REPORT_OFFICE in every other case: exactly 45 minutes, less, in the
\* past, unparseable or missing.
C12_TimeThreshold ==
    (call.pc = "returned" /\ InTimeBranch(call.m)) =>
        LET sched == _parse_dt(Get(call.m, "scheduled_departure", JStr(<<>>)), DATEUTIL_OK)
        IN  IF sched.ok /\ Beyond45(sched, now)
            THEN call.st.status_key = "LOADING_WAIT"
            ELSE call.st.status_key = "REPORT_OFFICE"

\* C12 witness: the schedule "2024-05-01 14:00" read at 13:15, exactly 45
\* minutes ahead, returned REPORT_OFFICE
C12_Witness ==
    /\ call.pc = "returned" /\ InTimeBranch(call.m)
    /\ call.m.scheduled_departure = Sched1400
    /\ now.sec = 13 * 3600 + 15 * 60
    /\ call.st.status_key = "REPORT_OFFICE"

\* the schedule of the record, parsed
ParsedSchedule(m) == _parse_dt(Get(m, "scheduled_departure", JStr(<<>>)), DATEUTIL_OK)

\* the schedule less 45 minutes, written out for each schedule of StatusSchedules
\* in the style of that schedule; the empty text where the schedule does not parse
ExpectedReport(sched_raw) ==
    IF sched_raw = Sched1400 THEN <<"2","0","2","4","-","0","5","-","0","1"," ","1","3",":","1","5">>
    ELSE IF sched_raw = Sched1401 THEN <<"2","0","2","4","-","0","5","-","0","1"," ","1","3",":","1","6">>
    ELSE IF sched_raw = Sched1330 THEN <<"2","0","2","4","-","0","5","-","0","1"," ","1","2",":","4","5">>
    ELSE IF sched_raw \in {SchedAware, SchedZulu} THEN <<"2","0","2","4","-","0","5","-","0","1","T","1","3",":","1","5">>
    ELSE IF sched_raw = SchedDotted /\ DATEUTIL_OK THEN <<"0","1",".","0","5",".","2","0","2","4"," ","1","3",":","1","5",":","0","0">>
    ELSE <<>>

\* C13 (as stated): whenever the schedule of the record parses, the returned
\* report time is the schedule less 45 minutes, whichever branch fired and
\* whatever the clock reads.
C13_ReportTimeWheneverParsed ==
    (call.pc = "returned" /\ ParsedSchedule(call.m).ok) =>
        /\ call.st.report_in_office_at # <<>>
        /\ call.st.report_in_office_at = ExpectedReport(call.m.scheduled_departure)

\* C13 (amended): a status returned from the manual-message or the departed
\* branch has an empty report time; one returned from the location,
\* close-door or time branch has the schedule less 45 minutes in the style of
\* the schedule when the schedule parses and the empty text when it does not,
\* whatever the clock reads.
C13_ReportTimeAfterOverrides ==
    call.pc = "returned" =>
        call.st.report_in_office_at =
            IF ManualMessage(call.m, MANUAL_STATUS_BY_PLATE) # <<>> \/ Departed(call.m)
            THEN <<>>
            ELSE ExpectedReport(call.m.scheduled_departure)

\* C13 witness: a record at location D1 scheduled "2024-05-01 14:00", read at
\* 14:30, returned LOCATION with the report time "2024-05-01 13:15"
C13_Witness ==
    /\ call.pc = "returned"
    /\ call.st.status_key = "LOCATION"
    /\ call.m.scheduled_departure = Sched1400
    /\ now.sec = 14 * 3600 + 30 * 60
    /\ call.st.report_in_office_at = <<"2","0","2","4","-","0","5","-","0","1"," ","1","3",":","1","5">>

\* the clock readings t1 and t2 lie on the same side of the 45-minute
\* threshold of the record's schedule (any two do when it does not parse)
SameSide(m, t1, t2) ==
    ParsedSchedule(m).ok =>
        (Beyond45(ParsedSchedule(m), t1) <=> Beyond45(ParsedSchedule(m), t2))

\* C14: a second call with the same record, language and manual store, made
\* at a clock reading on the same side of the 45-minute threshold as the
\* first, returns the same status_key, text and report time as the first.
C14_SameInputsSameStatus ==
    (call.pc = "repeated" /\ SameSide(call.m, ClockTimes[call.at], now)) =>
        call.again = call.st

\* C14 witness: the schedule "2024-05-01 14:01" in the time branch, read at
\* 12:00 and again at 13:15, returned LOADING_WAIT both times
C14_Witness ==
    /\ call.pc = "repeated" /\ InTimeBranch(call.m)
    /\ call.m.scheduled_departure = Sched1401
    /\ call.at = 1 /\ clock = 2
    /\ call.st.status_key = "LOADING_WAIT"
    /\ call.again = call.st

\* the positions of the snapshot records whose plate normalizes to plate
RecordsOfPlate(plate) ==
    { k \in 1..Len(_snapshot_movements(SNAPSHOT)) :
        LET lp == Get(_snapshot_movements(SNAPSHOT)[k], "license_plate", JStr(<<>>))
        IN  ~normalize_plate_raises(lp) /\ normalize_plate(lp) = plate }

\* C15: the diff pass never acts on a record as the record of its plate when
\* the snapshot holds another record of that plate: it neither stores the
\* record's key in LAST_STATUS_KEY_BY_PLATE nor dispatches for it.
C15_AmbiguousPlateNotActedOn ==
    [][ (el.pc = "pass"
         /\ (LAST_STATUS_KEY_BY_PLATE' # LAST_STATUS_KEY_BY_PLATE
             \/ (disp.pc = "none" /\ disp'.pc = "send"))) =>
            \A p \in DOMAIN LAST_STATUS_KEY_BY_PLATE' :
                (p \notin DOMAIN LAST_STATUS_KEY_BY_PLATE
                 \/ LAST_STATUS_KEY_BY_PLATE'[p] # LAST_STATUS_KEY_BY_PLATE[p]) =>
                    Cardinality(RecordsOfPlate(p)) <= 1
      ]_vars

\* C16: a sample whose timestamp is more than MAX_LOCATION_AGE_SECONDS from
\* now, in the past or in the future, is rejected as stale whatever its
\* distance; a fresh sample farther than the radius is rejected as out of
\* range; a fresh sample within the radius is accepted; the two rejections
\* carry different reasons.
C16_StaleBeforeRange ==
    call.pc \in {"returned", "raised"} =>
        LET stale == \/ call.sample.age > MAX_LOCATION_AGE_SECONDS
                     \/ call.sample.age < 0 - MAX_LOCATION_AGE_SECONDS
            far   == call.sample.metres > GEOFENCE_RADIUS_KM * 1000
        IN  /\ stale => (call.pc = "raised" /\ call.reason = "stale")
            /\ (~stale /\ far) => (call.pc = "raised" /\ call.reason = "range")
            /\ (~stale /\ ~far) => (call.pc = "returned" /\ call.reason = "ok")

\* C16 witness: a sample dated 121 seconds in the future and 30001 metres
\* from the hub was rejected as stale
C16_Witness ==
    /\ call.pc = "raised"
    /\ call.sample = [age |-> -121, metres |-> 30001]
    /\ call.reason = "stale"

\* every point of the route is a point of the given provider or the destination
RouteIsFrom(provider) ==
    \A k \in 1..Len(call.route) :
        call.route[k] = Dest \/ call.route[k][1] = ProviderId(provider)

\* C17: build_route_points returns the points of the first provider, in the
\* order ORS, OSRM, that gave any, under that provider's tag, and the line
\* <<origin, destination>> under the tag DIRECT when neither did; without a
\* key no request goes to ORS; a request goes to OSRM exactly when ORS was
\* skipped or gave nothing; the call always ends by returning.
C17_FirstProviderWins ==
    /\ call.pc \in {"ORS", "OSRM", "returned"}
    /\ call.key = <<>> => call.requests.ORS = 0
    /\ call.requests.OSRM > 0 => call.answer.ORS.kind \in {"no key", "timeout", "http_error",
                                                           "malformed", "empty"}
    /\ call.pc = "returned" =>
          /\ call.route # <<>>
          /\ IF call.answer.ORS.kind = "points"
             THEN call.tag = "ORS" /\ RouteIsFrom("ORS") /\ call.requests.OSRM = 0
             ELSE /\ call.requests.OSRM = 1
                  /\ IF call.answer.OSRM.kind = "points"
                     THEN call.tag = "OSRM" /\ RouteIsFrom("OSRM")
                     ELSE call.tag = "DIRECT" /\ call.route = <<Origin, Dest>>

\* C17 witness: with a key, ORS timed out, OSRM gave no route, and the call
\* returned the direct line
C17_Witness ==
    /\ call.pc = "returned" /\ call.key # <<>>
    /\ call.answer.ORS.kind = "timeout" /\ call.answer.OSRM.kind = "empty"
    /\ call.route = <<Origin, Dest>> /\ call.tag = "DIRECT"

\* C18: no provider gets more than one request during a call, and a step in
\* which a provider fails (timeout or any other failure) leaves that provider
\* for the next one of the chain.
C18_NoProviderAskedTwice ==
    /\ [](call.requests.ORS <= 1 /\ call.requests.OSRM <= 1)
    /\ [][ /\ (call.pc = "ORS" /\ call'.answer.ORS.kind # "points") => call'.pc = "OSRM"
           /\ (call.pc = "OSRM" /\ call'.answer.OSRM.kind # "points") =>
                  (call'.pc = "returned" /\ call'.tag = "DIRECT")
         ]_vars

\* C18 witness: ORS timed out and OSRM answered with an HTTP error, each
\* having had one request
C18_Witness ==
    /\ call.pc = "returned"
    /\ call.answer.ORS.kind = "timeout" /\ call.answer.OSRM.kind = "http_error"
    /\ call.requests = [ORS |-> 1, OSRM |-> 1]

\* C19: when the provider whose points are returned answered with n > 1200
\* points, the returned polyline is every step-th of them from the first on,
\* step being the least number with step * 1200 >= n, followed by the
\* destination unless the last point taken is the destination already; so
\* its first point is the provider's first and its last is the destination.
C19_DownsampledEndsAtDestination ==
    (call.pc = "returned" /\ call.tag \in {"ORS", "OSRM"}
     /\ call.answer[call.tag].n > MAX_ROUTE_POINTS) =>
        LET n     == call.answer[call.tag].n
            pts   == ResponsePoints(call.tag, call.answer[call.tag])
            step  == CHOOSE t \in 1..n : t * MAX_ROUTE_POINTS >= n /\ (t - 1) * MAX_ROUTE_POINTS < n
            taken == CHOOSE c \in 1..n : (c - 1) * step + 1 <= n /\ c * step + 1 > n
        IN  /\ Len(call.route) \in {taken, taken + 1}
            /\ \A k \in 1..taken : call.route[k] = pts[(k - 1) * step + 1]
            /\ Len(call.route) = taken + 1 <=> pts[(taken - 1) * step + 1] # Dest
            /\ call.route[1] = pts[1]
            /\ call.route[Len(call.route)] = Dest

\* C19 witness: ORS answered with 2400 points ending at the destination; the
\* polyline returned has the 1200 points 1, 3, ..., 2399 and the destination
C19_Witness ==
    /\ call.pc = "returned" /\ call.tag = "ORS"
    /\ call.answer.ORS = [kind |-> "points", n |-> 2400, at_dest |-> TRUE]
    /\ Len(call.route) = 1201
    /\ call.route[1] = <<1, 1>> /\ call.route[1200] = <<1, 2399>>
    /\ call.route[1201] = Dest

\* the text t begins with the text prefix, letter case aside
BeginsWithNoCase(t, prefix) ==
    Len(t) >= Len(prefix) /\ Upper(SubSeq(t, 1, Len(prefix))) = Upper(prefix)

\* C20: the city and the country resolve_destination works with come, each
\* on its own, from the DESTLAND_BY_CODE row of the code when that row has
\* the field and from the LOCATION_BY_CODE row otherwise; a city taken from
\* LOCATION_BY_CODE that begins with the code and a space loses that prefix
\* (code ABC, city "ABC Warehouse1": "Warehouse1"); a country both rows have
\* is the one of DESTLAND_BY_CODE.
C20_CityCountryPrecedence ==
    call.pc = "returned" =>
        LET code == call.out.code
            dl   == RowOf(call.DESTLAND_BY_CODE, code)
            loc  == RowOf(call.LOCATION_BY_CODE, code)
            geo_city == Strip(loc.city)
        IN  /\ call.out.city =
                   IF Strip(dl.city) # <<>> THEN Strip(dl.city)
                   ELSE IF BeginsWithNoCase(geo_city, code \o <<" ">>)
                   THEN Strip(SubSeq(geo_city, Len(code) + 2, Len(geo_city)))
                   ELSE geo_city
            /\ call.out.country =
                   IF Strip(dl.country) # <<>> THEN Strip(dl.country) ELSE Strip(loc.country)
            /\ (code = <<"A","B","C">> /\ dl.city = <<>> /\ loc.city = <<"A","B","C"," ","W","a","r","e","h","o","u","s","e","1">>) =>
                   call.out.city = <<"W","a","r","e","h","o","u","s","e","1">>

\* C20 witness: code ABC, the locality row without a city and with country
\* "NL", the geo row with city "ABC Warehouse1" and country "DE": the city is
\* "Warehouse1", the country "NL"
C20_Witness ==
    /\ call.pc = "returned"
    /\ call.out.code = <<"A","B","C">>
    /\ RowOf(call.DESTLAND_BY_CODE, <<"A","B","C">>).city = <<>>
    /\ RowOf(call.DESTLAND_BY_CODE, <<"A","B","C">>).country = <<"N","L">>
    /\ RowOf(call.LOCATION_BY_CODE, <<"A","B","C">>).city = <<"A","B","C"," ","W","a","r","e","h","o","u","s","e","1">>
    /\ RowOf(call.LOCATION_BY_CODE, <<"A","B","C">>).country = <<"D","E">>
    /\ call.out.city = <<"W","a","r","e","h","o","u","s","e","1">> /\ call.out.country = <<"N","L">>
    /\ call.out.dest_text = <<"W","a","r","e","h","o","u","s","e","1",","," ","N","L"," ","(","A","B","C",")">>

\* C21: normalize_plate is idempotent: applied to its own result it gives
\* that result back, for every input string
C21_NormalizePlateIdempotent ==
    call.pc = "twice" => call.twice = call.once

\* C22: the display text of resolve_destination is "city, country (code)"
\* when all three resolve, the bare code when a code but not both of city
\* and country resolve, and, when no code resolves, the raw text of the
\* field that step 1 selected
SelectedInStep1 == _first_nonempty(call.rec, DestCodeKeys)
C22_DisplayText ==
    call.pc = "returned" =>
        LET o == call.out
        IN  /\ (o.city # <<>> /\ o.country # <<>> /\ o.code # <<>>) =>
                   o.dest_text = o.city \o <<",", " ">> \o o.country
                                        \o <<" ", "(">> \o o.code \o <<")">>
            /\ (o.code # <<>> /\ (o.city = <<>> \/ o.country = <<>>)) =>
                   o.dest_text = o.code
            /\ (o.code = <<>> /\ SelectedInStep1 # JNull) =>
                   o.dest_text = PyStr(SelectedInStep1)

\* C23: in a status-change dispatch every subscription is sent the body of
\* its stored language, the default-language (en) body when that language is
\* not a supported one; the bodies are the status texts of the changed
\* record in every supported language, computed when the dispatch starts and
\* not changed while the subscribers are served
StoredLangOrDefault(sub) ==
    IF sub.lang \in SUPPORTED_LANGS THEN sub.lang ELSE <<"e","n">>
C23_BodyOfStoredLanguage ==
    /\ [](disp.title_key = "STATUS_UPDATE" =>
             \A k \in 1..Len(disp.att) :
                 disp.att[k].body = disp.bodies[StoredLangOrDefault(disp.att[k].sub)])
    /\ [][(disp.pc = "none" /\ disp'.pc = "send" /\ disp'.title_key = "STATUS_UPDATE") =>
             /\ DOMAIN disp'.bodies = SUPPORTED_LANGS
             /\ \A l \in SUPPORTED_LANGS :
                   disp'.bodies[l] =
                       compute_driver_status(_snapshot_movements(SNAPSHOT)[el.i], JStr(l),
                                             MANUAL_STATUS_BY_PLATE, now, DATEUTIL_OK).status_text]_vars
    /\ [][(disp.pc = "send" /\ disp'.pc # "none") => disp'.bodies = disp.bodies]_vars
C23_Witness ==
    /\ disp.title_key = "STATUS_UPDATE"
    /\ disp.bodies[<<"d","e">>] # disp.bodies[<<"e","n">>]
    /\ \E j, k \in 1..Len(disp.att) :
          /\ disp.att[j].sub.lang = <<"d","e">>
          /\ disp.att[j].body = disp.bodies[<<"d","e">>]
          /\ disp.att[k].sub.lang = <<"e","n">>
          /\ disp.att[k].body = disp.bodies[<<"e","n">>]

\* C24: a delivery failure is not surfaced to the caller of the dispatch.
\* Whatever the outcomes of the deliveries, the steps of a dispatch leave the
\* caller where it stands, and when the dispatch has returned the diff pass
\* (of upload_snapshot or of the periodic loop) is at the record it was
\* about to look at and driver_message is at its return
C24_DeliveryFailureNotSurfaced ==
    [][(disp.pc \in {"send", "done"} /\ disp' # disp) =>
          /\ (disp'.pc # "none") => el' = el
          /\ (disp'.pc = "none" /\ el.pc = "pass") => el' = el
          /\ (disp'.pc = "none" /\ el.pc = "msg") => el' = Idle]_vars
C24_Witness ==
    /\ disp.pc = "done"
    /\ Len(disp.att) = 2
    /\ \A k \in 1..Len(disp.att) : ~disp.att[k].ok
    /\ el.pc = "pass" /\ el.kind = "loop"
    /\ el.i <= Len(_snapshot_movements(SNAPSHOT))

\* the plate has one record in the loaded snapshot, it is seeded, and the
\* status_key computed for its record now is not the cached one
KeyDiffers(plate) ==
    /\ PUSH_ENABLED
    /\ SNAPSHOT.ty = "dict"
    /\ plate \in DOMAIN LAST_STATUS_KEY_BY_PLATE
    /\ Cardinality(RecordsOfPlate(plate)) = 1
    /\ \A i \in RecordsOfPlate(plate) : KeysAt(clock)[i] # LAST_STATUS_KEY_BY_PLATE[plate]

\* C25: when the status_key computed for a seeded plate comes to differ from
\* its cached key, then, unless a new ingestion comes first, the periodic
\* task, fairly scheduled, eventually diffs the plate, dispatches and stores
\* the new key: the difference does not last for ever
C25_TimeDrivenChangeDispatched ==
    KeyDiffers(<<"A">>) ~> (~KeyDiffers(<<"A">>) \/ el.kind = "upload")

\* C26: on a changed status_key the diff pass dispatches first and writes the
\* new key afterwards: a step of a pass that replaces the cached key of a
\* plate with subscribers comes when the deliveries to them have been made
C26_DispatchThenCacheWrite ==
    [][\A p \in DOMAIN LAST_STATUS_KEY_BY_PLATE :
          (/\ el.pc = "pass"
           /\ LAST_STATUS_KEY_BY_PLATE'[p] # LAST_STATUS_KEY_BY_PLATE[p]
           /\ PUSH_ENABLED
           /\ SubsOf(SUBSCRIPTIONS_BY_PLATE, p) # <<>>) =>
              (disp.pc = "done" /\ disp.plate = p)]_vars

\* the plate of the record the diff loop is looking at (empty when it raises)
PlateAt(i) ==
    LET lp == Get(_snapshot_movements(SNAPSHOT)[i], "license_plate", JStr(<<>>))
    IN  IF normalize_plate_raises(lp) THEN <<>> ELSE normalize_plate(lp)

\* C27: LAST_STATUS_KEY_BY_PLATE[plate] is written only when a diff pass
\* seeds the plate or computes a key different from the stored one, or by
\* driver_message.  A diff pass that goes on from a record of a plate has
\* left the key computed for the record in the cache, and no later step of
\* the pass on another plate's record touches it: when the pass is complete
\* the stored key of a plate with one record is the key computed in the pass
C27_CacheWrittenOnlyOnChange ==
    /\ [][\A p \in DOMAIN LAST_STATUS_KEY_BY_PLATE' :
             (p \notin DOMAIN LAST_STATUS_KEY_BY_PLATE
              \/ LAST_STATUS_KEY_BY_PLATE'[p] # LAST_STATUS_KEY_BY_PLATE[p]) =>
                 \/ el'.pc = "msg" /\ el'.plate = p
                 \/ /\ el.pc = "pass" /\ el'.pc = "pass" /\ el'.i = el.i + 1
                    /\ PlateAt(el.i) = p
                    /\ LAST_STATUS_KEY_BY_PLATE'[p] = KeysAt(clock)[el.i]]_vars
    /\ [][(el.pc = "pass" /\ el'.pc = "pass" /\ el'.i = el.i + 1 /\ PlateAt(el.i) # <<>>) =>
             /\ PlateAt(el.i) \in DOMAIN LAST_STATUS_KEY_BY_PLATE'
             /\ LAST_STATUS_KEY_BY_PLATE'[PlateAt(el.i)] = KeysAt(clock)[el.i]]_vars
\* C27 witness: a pass is complete, and the cached key of the one record's
\* plate is a key that a change wrote over the seeded one
C27_Witness ==
    /\ el.pc = "pass" /\ el.kind = "loop"
    /\ el.i > Len(_snapshot_movements(SNAPSHOT))
    /\ el.seeded = {}
    /\ Cardinality(RecordsOfPlate(<<"A">>)) = 1
    /\ <<"A">> \in DOMAIN LAST_STATUS_KEY_BY_PLATE
    /\ LAST_STATUS_KEY_BY_PLATE[<<"A">>] = KeysAt(clock)[1]
    /\ LAST_STATUS_KEY_BY_PLATE[<<"A">>] # KeysAt(1)[1]
    /\ MANUAL_STATUS_BY_PLATE = EmptyDict

\* C28: a cache entry, once present, is never removed, and what a diff pass
\* does with a record depends on the entry alone: no entry, the key is
\* stored and nothing is dispatched (UNSEEN to SEEDED); the stored key, nothing
\* changes; another key, it is stored and the plate's subscribers are
\* dispatched to (NOTIFIED).  A plate that was missing from a snapshot still
\* has its entry when it reappears, and is compared against it, not seeded
C28_SeededOnceComparedEverAfter ==
    /\ [][DOMAIN LAST_STATUS_KEY_BY_PLATE \subseteq DOMAIN LAST_STATUS_KEY_BY_PLATE']_vars
    /\ [][(el.pc = "pass" /\ el'.pc = "pass" /\ el'.i = el.i + 1 /\ PlateAt(el.i) # <<>>) =>
             LET p == PlateAt(el.i)
                 key == KeysAt(clock)[el.i]
             IN  IF p \notin DOMAIN LAST_STATUS_KEY_BY_PLATE
                 THEN /\ LAST_STATUS_KEY_BY_PLATE'[p] = key
                      /\ p \in el'.seeded
                      /\ disp' = NoDisp
                 ELSE IF key = LAST_STATUS_KEY_BY_PLATE[p]
                 THEN /\ LAST_STATUS_KEY_BY_PLATE' = LAST_STATUS_KEY_BY_PLATE
                      /\ el'.seeded = el.seeded
                      /\ disp' = NoDisp
                 ELSE /\ LAST_STATUS_KEY_BY_PLATE'[p] = key
                      /\ el'.seeded = el.seeded
                      /\ SubsOf(SUBSCRIPTIONS_BY_PLATE, p) # <<>> =>
                             /\ disp'.pc = "send" /\ disp'.plate = p
                             /\ disp'.title_key = "STATUS_UPDATE"
                             /\ disp'.subs = SubsOf(SUBSCRIPTIONS_BY_PLATE, p)]_vars
\* C28 witness: a pass over a snapshot that has no record of a seeded plate
\* is complete and the plate's entry, with subscribers waiting, is still there
C28_Witness ==
    /\ el.pc = "pass" /\ el.i > Len(_snapshot_movements(SNAPSHOT))
    /\ RecordsOfPlate(<<"A">>) = {}
    /\ <<"A">> \in DOMAIN LAST_STATUS_KEY_BY_PLATE
    /\ SubsOf(SUBSCRIPTIONS_BY_PLATE, <<"A">>) # <<>>

\* str.isalnum() of an upper-case ASCII text
IsAlnum(t) ==
    \A i \in 1..Len(t) : \E a \in 1..26, d \in 1..10 : Uppercase[a] = t[i] \/ Digits[d] = t[i]

\* C29: a non-empty result of _extract_code_from_text is a 2 to 10 character
\* alphanumeric string
C29_ExtractedCodeIsAlphanumeric ==
    (call.pc = "returned" /\ call.code # <<>>) =>
        /\ Len(call.code) >= 2 /\ Len(call.code) <= 10
        /\ IsAlnum(call.code)

\* C30: the coordinates resolve_destination returns for a code are those of
\* the geo source (LOCATION_BY_CODE) when it has them, and otherwise those of
\* the locality source (DESTLAND_BY_CODE)
C30_CoordinatesPreferGeo ==
    (call.pc = "returned" /\ call.out.code # <<>>) =>
        LET loc_row == RowOf(call.LOCATION_BY_CODE, call.out.code)
            dl_row == RowOf(call.DESTLAND_BY_CODE, call.out.code)
        IN  /\ call.out.lat = IF loc_row.lat # JNull THEN loc_row.lat ELSE dl_row.lat
            /\ call.out.lon = IF loc_row.lon # JNull THEN loc_row.lon ELSE dl_row.lon

\* C31: a subscription stored by a subscribe call that completes while a
\* dispatch to its plate is delivering is still in the registry when the
\* dispatch has finished: the write that ends the dispatch keeps every entry
\* of the plate whose endpoint was not in the list the dispatch started with
C31_SubscribeDuringDispatchKept ==
    [][(disp.pc = "send" /\ disp'.pc = "done") =>
          \A k \in 1..Len(SubsOf(SUBSCRIPTIONS_BY_PLATE, disp.plate)) :
              LET sub == SubsOf(SUBSCRIPTIONS_BY_PLATE, disp.plate)[k]
                  after == SubsOf(SUBSCRIPTIONS_BY_PLATE', disp.plate)
              IN  (\A j \in 1..Len(disp.subs) : disp.subs[j].endpoint # sub.endpoint) =>
                      \E m \in 1..Len(after) : after[m] = sub]_vars

\* C32: two subscribe calls for one plate with different endpoints, handled
\* at the same time, are both in the plate's list when both have returned
C32_ConcurrentSubscribesBothKept ==
    (/\ call.th[1].pc = "done" /\ call.th[2].pc = "done"
     /\ call.th[1].endpoint # call.th[2].endpoint) =>
        \A t \in SubscribeThreads :
            \E k \in 1..Len(SubsOf(SUBSCRIPTIONS_BY_PLATE, <<"A">>)) :
                SUBSCRIPTIONS_BY_PLATE[<<"A">>][k].endpoint = call.th[t].endpoint

\* C33: an exception raised on one record of a diff pass does not keep the
\* pass from the records behind it: a pass that leaves a record which is not
\* the last goes on to the next record
C33_PassSurvivesBadRecord ==
    [][(/\ el.pc = "pass" /\ disp.pc = "none"
        /\ el.i < Len(_snapshot_movements(SNAPSHOT))
        /\ (el'.pc # "pass" \/ el'.i # el.i)) =>
           (el'.pc = "pass" /\ el'.i = el.i + 1)]_vars

\* C34: an upload_snapshot request with a wrong secret or without
\* 'movements', and a driver_message request with a wrong secret or without
\* a plate or a message, leaves SNAPSHOT, LAST_STATUS_KEY_BY_PLATE,
\* MANUAL_STATUS_BY_PLATE and SUBSCRIPTIONS_BY_PLATE as they were and starts
\* no delivery
C34_RejectedRequestChangesNothing ==
    [][/\ \A secret \in Secrets, body \in Bodies :
              (/\ UploadSnapshot(secret, body)
               /\ (secret # ADMIN_UPLOAD_SECRET \/ body.movements.ty = "missing")) =>
                  UNCHANGED << SNAPSHOT, LAST_STATUS_KEY_BY_PLATE, MANUAL_STATUS_BY_PLATE,
                               SUBSCRIPTIONS_BY_PLATE, disp >>
       /\ \A secret \in Secrets, body \in DriverMessageRequests :
              (/\ DriverMessage(secret, body)
               /\ \/ secret # ADMIN_UPLOAD_SECRET
                  \/ RemoveChar(RemoveChar(Strip(Upper(PyStr(body.plate))), " "), "-") = <<>>
                  \/ body.message.ty = "missing"
                  \/ Strip(PyStr(body.message)) = <<>>) =>
                  UNCHANGED << SNAPSHOT, LAST_STATUS_KEY_BY_PLATE, MANUAL_STATUS_BY_PLATE,
                               SUBSCRIPTIONS_BY_PLATE, disp >>]_vars
\* C34 witness: the service is idle with a snapshot, a cached key, a manual
\* message and a subscription it could lose to a request that must be rejected
C34_Witness ==
    /\ el.pc = "idle"
    /\ SNAPSHOT.ty = "dict" /\ Len(_snapshot_movements(SNAPSHOT)) = 1
    /\ <<"A">> \in DOMAIN LAST_STATUS_KEY_BY_PLATE
    /\ <<"A">> \in DOMAIN MANUAL_STATUS_BY_PLATE
    /\ SubsOf(SUBSCRIPTIONS_BY_PLATE, <<"A">>) # <<>>
    /\ \E secret \in Secrets, body \in Bodies : upload_snapshot_rejects(secret, body)

\* C35: a get_status, get_route or subscribe request that geofence_check
\* rejects (401 stale, 403 out of range) changes no stored state: the view
\* count stays, no routing provider is asked and the registry is as it was
C35_GeofenceRejectionChangesNothing ==
    [][/\ (call'.n = call.n + 1 /\ call'.last.status \in {401, 403}) =>
              /\ call'.viewed = call.viewed
              /\ call'.requests = call.requests
              /\ SUBSCRIPTIONS_BY_PLATE' = SUBSCRIPTIONS_BY_PLATE
       /\ \A req \in SubscribeRequests, sample \in Samples :
              (Subscribe(req, sample) /\ geofence_check(sample) # "ok") =>
                  /\ SUBSCRIPTIONS_BY_PLATE' = SUBSCRIPTIONS_BY_PLATE
                  /\ call' = call]_vars
\* C35 witness: with a view counted, a provider asked and a subscription
\* stored, the last request was rejected for its location
C35_Witness ==
    /\ call.last.status \in {401, 403}
    /\ call.viewed = 1 /\ call.requests > 0
    /\ SubsOf(SUBSCRIPTIONS_BY_PLATE, <<"A">>) # <<>>

\* C36: a manual message, once set for a plate, is never cleared and is
\* replaced only by driver_message; from then on compute_driver_status for
\* the plate returns the fingerprint key of the message, and no status-change
\* dispatch is made for the plate
C36_ManualMessageIsFinal ==
    /\ [][\A p \in DOMAIN MANUAL_STATUS_BY_PLATE :
             /\ p \in DOMAIN MANUAL_STATUS_BY_PLATE'
             /\ MANUAL_STATUS_BY_PLATE'[p] # MANUAL_STATUS_BY_PLATE[p] =>
                    (el'.pc = "msg" /\ el'.plate = p)]_vars
    /\ [](\A p \in DOMAIN MANUAL_STATUS_BY_PLATE :
             /\ ForcedKey(p, MANUAL_STATUS_BY_PLATE, now, DATEUTIL_OK)
                    = ManualKey(MANUAL_STATUS_BY_PLATE[p])
             /\ \A i \in RecordsOfPlate(p) :
                    KeysAt(clock)[i] = ManualKey(MANUAL_STATUS_BY_PLATE[p]))
    /\ []((disp.pc = "send" /\ disp.title_key = "STATUS_UPDATE") =>
             disp.plate \notin DOMAIN MANUAL_STATUS_BY_PLATE)

\* C37: the polyline a routing provider function returns has at most
\* MAX_ROUTE_POINTS (1200) points, whatever the size of the provider's answer.
C37_ProviderRouteAtMost1200 ==
    (call.pc = "returned" /\ call.tag \in {"ORS", "OSRM"}) =>
        Len(call.route) <= MAX_ROUTE_POINTS

\* a step in which the diff loop itself moves: an iteration, or its end
PassMoves == el.pc = "pass" /\ (el'.pc # "pass" \/ el'.i # el.i)

\* SUBSCRIPTIONS_BY_PLATE[plate] = alive, after the last delivery of a dispatch
PruningStep ==
    /\ disp.pc = "send" /\ disp.j > Len(disp.subs) /\ disp'.pc = "done"
    /\ \A p \in DOMAIN SUBSCRIPTIONS_BY_PLATE' :
          IF p = disp.plate
          THEN SUBSCRIPTIONS_BY_PLATE'[p] = disp.alive
          ELSE p \in DOMAIN SUBSCRIPTIONS_BY_PLATE
               /\ SUBSCRIPTIONS_BY_PLATE'[p] = SUBSCRIPTIONS_BY_PLATE[p]

\* SUBSCRIPTIONS_BY_PLATE[plate_n] = subs, at the end of an accepted subscribe
SubscribingStep ==
    /\ UNCHANGED << el, disp, call, clock, SNAPSHOT >>
    /\ \E p \in DOMAIN SUBSCRIPTIONS_BY_PLATE' :
          /\ SUBSCRIPTIONS_BY_PLATE'[p] # <<>>
          /\ \A k \in 1..(Len(SUBSCRIPTIONS_BY_PLATE'[p]) - 1) :
                \E j \in 1..Len(SubsOf(SUBSCRIPTIONS_BY_PLATE, p)) :
                   SUBSCRIPTIONS_BY_PLATE'[p][k] = SUBSCRIPTIONS_BY_PLATE[p][j]
          /\ \A q \in DOMAIN SUBSCRIPTIONS_BY_PLATE' \ {p} :
                q \in DOMAIN SUBSCRIPTIONS_BY_PLATE
                /\ SUBSCRIPTIONS_BY_PLATE'[q] = SUBSCRIPTIONS_BY_PLATE[q]

\* C38: the registry changes only in a step of subscribe or in the pruning
\* step that ends a dispatch; no step of a diff pass (so no pass without a
\* status change, which starts no dispatch) and no get_status or get_route
\* request changes it.
C38_RegistryWrittenBySubscribeAndPruneOnly ==
    [][/\ SUBSCRIPTIONS_BY_PLATE' # SUBSCRIPTIONS_BY_PLATE => (PruningStep \/ SubscribingStep)
       /\ PassMoves => SUBSCRIPTIONS_BY_PLATE' = SUBSCRIPTIONS_BY_PLATE
       /\ call' # call => SUBSCRIPTIONS_BY_PLATE' = SUBSCRIPTIONS_BY_PLATE]_vars

\* C38 witness: a periodic pass that found no status change has reached its
\* end while a subscription is registered, after an accepted get_status
C38_Witness ==
    /\ el.pc = "pass" /\ el.kind = "loop" /\ el.sq
    /\ el.i > Len(_snapshot_movements(SNAPSHOT)) /\ Len(_snapshot_movements(SNAPSHOT)) > 0
    /\ disp.pc = "none"
    /\ \E p \in DOMAIN SUBSCRIPTIONS_BY_PLATE : SUBSCRIPTIONS_BY_PLATE[p] # <<>>
    /\ call.last.handler = "get_status" /\ call.last.status = 200

\* C39: a payload served from the cache was stored at most _TRAFFIC_TTL_SEC
\* seconds before; a thread that found an expired entry removes it and goes on
\* to the provider; what the provider gave, a delay or an error, is stored
\* under the key with the time of storing; and two provider requests for one
\* cache key are more than _TRAFFIC_TTL_SEC seconds apart.
C39_CacheServesFreshAndAsksOnce ==
    /\ [](\A t \in TrafficThreads :
             call.ret[t].src = "cache" => call.ret[t].age <= _TRAFFIC_TTL_SEC)
    /\ [][\A t \in TrafficThreads :
             /\ (call.thr[t].pc = "pop" /\ call'.thr[t].pc # "pop") =>
                    /\ call'.thr[t].pc = "fetch"
                    /\ call.thr[t].key \notin DOMAIN call'._TRAFFIC_CACHE
             /\ (call.thr[t].pc = "set" /\ call'.thr[t].pc # "set"
                 /\ ~KeyNeverFound(call.thr[t].key)) =>
                    /\ call.thr[t].key \in DOMAIN call'._TRAFFIC_CACHE
                    /\ call'._TRAFFIC_CACHE[call.thr[t].key] =
                           [ts |-> call.time, payload |-> call.thr[t].out]]_vars
    /\ [](\A i, j \in 1..Len(call.lookups) :
             (i < j /\ call.lookups[i].key = call.lookups[j].key) =>
                 call.lookups[j].at - call.lookups[i].at > _TRAFFIC_TTL_SEC)

====
